---- MODULE Spec2Model ----
(***************************************************************************)
(* A state-machine model of newcal's calibration drivers:                  *)
(*   caldata.py                  CalData, expand_in_frequency,             *)
(*                               expand_in_polarization                    *)
(*   calibration_optimization.py the per-sub-problem optimization drivers  *)
(*   calibration_wrappers.py     calibration_per_pol,                      *)
(*                               calibrate_caldata_per_pol, apply_abscal,  *)
(*                               get_dwcal_weights_from_delay_spectra      *)
(*                                                                         *)
(* Array values are symbolic.  An input entry (an initial gain, a slab of  *)
(* model or data visibilities) is a token tagged with the place it came    *)
(* from; the optimizer's answer is a term over the sub-problem it was      *)
(* handed.  Two outputs are equal in the model only when the code computes *)
(* them from the same inputs in the same way.  The code branches on the    *)
(* visibility weights alone, so the weights are concrete (0 or 1, as       *)
(* load_data sets them) and are enumerated.                                *)
(*                                                                         *)
(* Arrays keep the code's 0-based indices.  The gains tensor of shape      *)
(* (Nants, Nfreqs, N_feed_pols) is the function gains[f][p], whose value   *)
(* is the vector over the antenna axis: every statement of the drivers     *)
(* treats that axis as a whole.  GainAt reads one antenna's entry.  A      *)
(* visibility tensor of shape (Ntimes, Nbls, Nfreqs, N_vis_pols) is        *)
(* t[f][vp], one entry per (frequency, polarization) slab; the weights     *)
(* keep the baseline axis, visibility_weights[f][vp][b].                   *)
(***************************************************************************)
EXTENDS Integers, Sequences, FiniteSets, TLC

VARIABLES
    caldata_obj,        \* the CalData object the driver works on
    parallel,           \* argument parallel
    verbose,            \* argument verbose
    get_crosspol_phase, \* argument get_crosspol_phase
    nonconv,            \* sub-problems <<f, vp>> on which the optimizer stops unconverged
    pool,               \* "unbound", "none", "open", "closed" or "joined"
    pc,                 \* position in the running call
    caldata_list,       \* the per-frequency CalData objects
    freq_ind,           \* loop index of the sequential loop
    pending,            \* starmap tasks not yet finished
    result,             \* starmap results, by task index
    finished,           \* task indices in the order the workers finished
    stdout,             \* what was printed
    optcalls,           \* sub-problems handed to scipy.optimize.minimize (history)
    dispatched,         \* whether anything was handed to the pool (history)
    entry,              \* the function the caller invoked
    raised,             \* the exception that ended the call, or "none"
    prev,               \* outcome of an earlier call on related input (history)
    uvdata,             \* apply_abscal: the caller's UVData object
    uvdata_new,         \* apply_abscal: the local uvdata_new, or Unbound
    apply_args,         \* apply_abscal: abscal_params, feed_polarization_array, inplace
    vis_pol_ind,        \* apply_abscal: loop index over uvdata.polarization_array
    returned,           \* the value handed back to the caller
    dw_args,            \* delay weighting: baseline lengths and bl_length_bin_edges
    bl_ind,             \* delay weighting: loop index over the baselines
    dwcal_variance_use, \* delay weighting: the local array of that name, by baseline
    hess_blocks,        \* hessian_single_pol_wrapper: the blocks the cost engine returned
    hess_flattened,     \* hessian_single_pol_wrapper: the matrix handed to the optimizer
    fit_vector,         \* phase centering: the local gains_fit, by antenna
    initial_abscal_params \* dw_absolute_calibration: the caller's array, {} for None

\* the variables of the functions checked on their own and the caller's
\* array of dw_absolute_calibration
purevars == <<hess_blocks, hess_flattened, fit_vector, initial_abscal_params>>

\* the variables of apply_abscal and get_dwcal_weights_from_delay_spectra
auxvars == <<uvdata, uvdata_new, apply_args, vis_pol_ind, returned,
             dw_args, bl_ind, dwcal_variance_use>>

vars == <<caldata_obj, parallel, verbose, get_crosspol_phase, nonconv,
          pool, pc, caldata_list, freq_ind, pending, result, finished, stdout,
          optcalls, dispatched, entry, raised, prev, auxvars, purevars>>

-----------------------------------------------------------------------------
(* Bounds and dimensions *)

MaxFreqs == 2

\* baseline lengths run over 0 .. MaxLen (metres)
MaxLen == 3

Ants == {0, 1, 2}

\* gains_exp_mat_1 and gains_exp_mat_2: baseline b joins BlAnt1[b] and BlAnt2[b]
Bls == {0, 1}
BlAnt1 == (0 :> 0) @@ (1 :> 1)
BlAnt2 == (0 :> 1) @@ (1 :> 2)

PolX == -5
PolY == -6
PolXY == -7
PolYX == -8

Arr(seq) == [i \in 0 .. (Len(seq) - 1) |-> seq[i + 1]]

Idx(a) == DOMAIN a

-----------------------------------------------------------------------------
(* Symbolic values *)

NaN == [k |-> "nan"]

\* print("ERROR: All data flagged.")
AllFlaggedMsg == [k |-> "ERROR: All data flagged."]

\* the initial gains[:, f, p] of the data set tagged ver
GainInit(f, p, ver) == [k |-> "init", f |-> f, p |-> p, ver |-> ver]

\* gains[a, f, p]
GainAt(gains, a, f, p) ==
    IF gains[f][p] = NaN THEN NaN ELSE [a |-> a, of |-> gains[f][p]]

AbscalInit(f, p, ver) == [k |-> "init", f |-> f, p |-> p, ver |-> ver]

VisToken(kind, f, vp, ver) == [k |-> kind, f |-> f, vp |-> vp, ver |-> ver]

-----------------------------------------------------------------------------
(* CalData (caldata.py) *)

ZeroWeights == [b \in Bls |-> 0]
OnesWeights == [b \in Bls |-> 1]

\* weights of one (frequency, polarization) slab: everything flagged, the
\* baselines of antenna 0 flagged, nothing flagged
WeightPatterns == {ZeroWeights, (0 :> 0) @@ (1 :> 1), OnesWeights}

CrossWeightPatterns == {ZeroWeights, OnesWeights}

\* Python's None
None == [k |-> "None"]

\* CalData.load_data: the object as the ingestion leaves it.  w[f][vp] are the
\* weights, ver[f] tags the contents of channel f.
LoadData(nfreqs, feed_pols, vis_pols, w, ver) ==
    [ Nfreqs |-> nfreqs,
      N_feed_pols |-> Len(feed_pols),
      N_vis_pols |-> Len(vis_pols),
      feed_polarization_array |-> Arr(feed_pols),
      vis_polarization_array |-> Arr(vis_pols),
      gains |-> [f \in 0 .. (nfreqs - 1) |->
                   [p \in 0 .. (Len(feed_pols) - 1) |-> GainInit(f, p, ver[f])]],
      abscal_params |-> [f \in 0 .. (nfreqs - 1) |->
                           [p \in 0 .. (Len(feed_pols) - 1) |-> AbscalInit(f, p, ver[f])]],
      model_visibilities |-> [f \in 0 .. (nfreqs - 1) |->
                                [vp \in 0 .. (Len(vis_pols) - 1) |->
                                   VisToken("model", f, vp, ver[f])]],
      data_visibilities |-> [f \in 0 .. (nfreqs - 1) |->
                               [vp \in 0 .. (Len(vis_pols) - 1) |->
                                  VisToken("data", f, vp, ver[f])]],
      visibility_weights |-> w,
      freq_array |-> [f \in 0 .. (nfreqs - 1) |-> f],
      dwcal_inv_covariance |-> None ]

\* np.max(caldata_obj.visibility_weights)
MaxWeight(cd) ==
    IF \E f \in Idx(cd.visibility_weights) :
          \E vp \in Idx(cd.visibility_weights[f]) :
             \E b \in Bls : cd.visibility_weights[f][vp][b] > 0
    THEN 1 ELSE 0

ExpandInFrequency_SharedWeights(cd) ==
    [freq_ind_ \in 0 .. (cd.Nfreqs - 1) |->
        [cd EXCEPT
            !.Nfreqs = 1,
            !.gains = Arr(<<cd.gains[freq_ind_]>>),
            !.abscal_params = Arr(<<cd.abscal_params[freq_ind_]>>),
            !.model_visibilities = Arr(<<cd.model_visibilities[freq_ind_]>>),
            !.data_visibilities = Arr(<<cd.data_visibilities[freq_ind_]>>),
            !.visibility_weights = Arr(<<cd.visibility_weights[0]>>),
            !.freq_array = Arr(<<cd.freq_array[freq_ind_]>>),
            !.dwcal_inv_covariance = None]]

\* CalData.expand_in_frequency: element freq_ind holds copies of the slices
\* [:, [freq_ind], :] and shares the metadata
ExpandInFrequency(cd) ==
    [freq_ind_ \in 0 .. (cd.Nfreqs - 1) |->
        [cd EXCEPT
            !.Nfreqs = 1,
            !.gains = Arr(<<cd.gains[freq_ind_]>>),
            !.abscal_params = Arr(<<cd.abscal_params[freq_ind_]>>),
            !.model_visibilities = Arr(<<cd.model_visibilities[freq_ind_]>>),
            !.data_visibilities = Arr(<<cd.data_visibilities[freq_ind_]>>),
            !.visibility_weights = Arr(<<cd.visibility_weights[freq_ind_]>>),
            !.freq_array = Arr(<<cd.freq_array[freq_ind_]>>),
            !.dwcal_inv_covariance = None]]

\* np.where(self.vis_polarization_array == pol)[0][0]
SkyPolInd(cd, pol) ==
    CHOOSE i \in Idx(cd.vis_polarization_array) :
        /\ cd.vis_polarization_array[i] = pol
        /\ \A j \in Idx(cd.vis_polarization_array) :
              cd.vis_polarization_array[j] = pol => i <= j

\* CalData.expand_in_polarization: element feed_pol_ind holds copies of the
\* slices of the gains at that feed polarization and of the visibilities at
\* the visibility polarization with the same code
ExpandInPolarization(cd) ==
    [feed_pol_ind \in Idx(cd.feed_polarization_array) |->
        LET pol == cd.feed_polarization_array[feed_pol_ind]
            sky_pol_ind == SkyPolInd(cd, pol)
            fs == Idx(cd.gains)
        IN  [cd EXCEPT
                !.N_feed_pols = 1,
                !.N_vis_pols = 1,
                !.feed_polarization_array = Arr(<<pol>>),
                !.vis_polarization_array = Arr(<<cd.vis_polarization_array[sky_pol_ind]>>),
                !.gains = [f \in fs |-> Arr(<<cd.gains[f][feed_pol_ind]>>)],
                !.abscal_params = [f \in fs |-> Arr(<<cd.abscal_params[f][feed_pol_ind]>>)],
                !.model_visibilities =
                    [f \in fs |-> Arr(<<cd.model_visibilities[f][sky_pol_ind]>>)],
                !.data_visibilities =
                    [f \in fs |-> Arr(<<cd.data_visibilities[f][sky_pol_ind]>>)],
                !.visibility_weights =
                    [f \in fs |-> Arr(<<cd.visibility_weights[f][sky_pol_ind]>>)],
                !.dwcal_inv_covariance =
                    IF cd.dwcal_inv_covariance = None
                    THEN None
                    ELSE [ k |-> "dwcal_pol", vp |-> sky_pol_ind,
                           of |-> cd.dwcal_inv_covariance ]]]

NaNGains_Unfilled(cd) == cd.gains

\* gains[:, :, :] = np.nan + 1j * np.nan
NaNGains(cd) ==
    [f \in Idx(cd.gains) |-> [p \in Idx(cd.gains[f]) |-> NaN]]

-----------------------------------------------------------------------------
(* The optimization driver for gains (calibration_optimization.py) *)

\* scipy.optimize.minimize on one (frequency, polarization) sub-problem: the
\* answer is a term over what the cost, Jacobian and Hessian wrappers read,
\* gains_init_flattened and caldata_per_pol's [:, :, 0, 0] slabs.  nc holds the
\* sub-problems on which the iteration stops without converging.
Minimize(x0, caldata_per_pol, nc) ==
    LET sub == [ x0 |-> x0,
                 model |-> caldata_per_pol.model_visibilities[0][0],
                 data |-> caldata_per_pol.data_visibilities[0][0],
                 weights |-> caldata_per_pol.visibility_weights[0][0] ]
        unconverged == <<sub.model.f, sub.model.vp>> \in nc
    IN  [ x |-> [k |-> "x", sub |-> sub, converged |-> ~unconverged],
          sub |-> sub,
          success |-> ~unconverged,
          message |-> [ k |-> "message", f |-> sub.model.f, vp |-> sub.model.vp,
                        success |-> ~unconverged ] ]

\* gains_fit *= cos(avg_angle) - 1j * sin(avg_angle): every entry turned by the
\* circular mean of the phases of the fitted vector
CenterPhase(gains_fit) ==
    [k |-> "fit", sub |-> gains_fit.sub, converged |-> gains_fit.converged]

Report_OnlySuccess(verb, res) == IF verb /\ res.success THEN <<res.message>> ELSE << >>

\* if verbose: print(result.message)
Report(verb, res) == IF verb THEN <<res.message>> ELSE << >>

\* One pass of the loop over caldata_list in
\* run_calibration_optimization_per_pol_single_freq.  The all-flagged branch
\* fills caldata_per_pol.gains, which expand_in_polarization made a copy.
PerPolStep(cd, caldata_per_pol, feed_pol_ind, verb, nc) ==
    IF MaxWeight(caldata_per_pol) = 0
    THEN [ cd |-> cd,
           per_pol |-> [caldata_per_pol EXCEPT !.gains = NaNGains(caldata_per_pol)],
           out |-> << >>,
           calls |-> {} ]
    ELSE LET res == Minimize(caldata_per_pol.gains[0][0], caldata_per_pol, nc)
             gains_fit == CenterPhase(res.x)
         IN  [ cd |-> [cd EXCEPT !.gains =
                          [f \in Idx(cd.gains) |->
                              [cd.gains[f] EXCEPT ![feed_pol_ind] = gains_fit]]],
               per_pol |-> [caldata_per_pol EXCEPT !.gains = Arr(<<Arr(<<gains_fit>>)>>)],
               out |-> Report(verb, res),
               calls |-> {<<res.sub.model.f, res.sub.model.vp>>} ]

RECURSIVE PerPolLoop(_, _, _, _, _)
PerPolLoop(acc, list, feed_pol_ind, verb, nc) ==
    IF feed_pol_ind \notin DOMAIN list
    THEN acc
    ELSE LET s == PerPolStep(acc.cd, list[feed_pol_ind], feed_pol_ind, verb, nc)
         IN  PerPolLoop([ cd |-> s.cd,
                          out |-> acc.out \o s.out,
                          calls |-> acc.calls \cup s.calls ],
                        list, feed_pol_ind + 1, verb, nc)

\* cost_function_calculations.set_crosspol_phase: the phase psi by which the
\* first feed is to be turned by exp(-i psi/2) and the second by exp(+i psi/2)
\* to align the cross visibilities (first-second, second-first) with the data.
\* Handing over the feeds and the cross visibilities in the other order asks
\* for the same alignment with the two roles exchanged, whose answer is -psi:
\* the term is kept in the order X, Y with the sign apart.
SetCrosspolPhase(cd, crosspol_indices) ==
    LET exchanged == cd.vis_polarization_array[crosspol_indices[0]] = PolYX
        At(i) == IF exchanged THEN 1 - i ELSE i
    IN  [ k |-> "psi",
          neg |-> exchanged,
          gains |-> [i \in {0, 1} |-> cd.gains[0][At(i)]],
          model |-> [i \in {0, 1} |->
                       cd.model_visibilities[0][crosspol_indices[At(i)]]],
          data |-> [i \in {0, 1} |->
                      cd.data_visibilities[0][crosspol_indices[At(i)]]],
          weights |-> [i \in {0, 1} |->
                         cd.visibility_weights[0][crosspol_indices[At(i)]]] ]

\* g * exp(sgn * 1j * crosspol_phase / 2)
Rotate(g, sgn, psi) ==
    IF g = NaN
    THEN NaN
    ELSE [ k |-> "rot", g |-> g,
           sgn |-> IF psi.neg THEN 0 - sgn ELSE sgn,
           psi |-> [psi EXCEPT !.neg = FALSE] ]

\* lines 448-479: the crosspolarization phase
CrosspolApplies(cd, gcp) ==
    gcp /\ cd.N_feed_pols = 2 /\ cd.N_vis_pols = 4

CrosspolPolarizations_NoExchange(cd) == <<PolXY, PolYX>>

CrosspolPolarizations(cd) ==
    IF cd.feed_polarization_array[0] = PolX /\ cd.feed_polarization_array[1] = PolY
    THEN <<PolXY, PolYX>>
    ELSE <<PolYX, PolXY>>

ConstrainCrosspolPhase(cd) ==
    LET cpp == CrosspolPolarizations(cd)
        crosspol_indices == [i \in {0, 1} |-> SkyPolInd(cd, cpp[i + 1])]
        crosspol_phase == SetCrosspolPhase(cd, crosspol_indices)
    IN  [cd EXCEPT !.gains =
            [f \in Idx(cd.gains) |->
                [p \in Idx(cd.gains[f]) |->
                    Rotate(cd.gains[f][p], IF p = 0 THEN -1 ELSE 1, crosspol_phase)]]]

\* run_calibration_optimization_per_pol_single_freq: the object after the
\* call, what was printed, the optimizer invocations, and the value returned
\* when return_gains is set (caldata_obj.gains)
RunCalibrationOptimizationPerPolSingleFreq(cd, verb, gcp, nc) ==
    IF MaxWeight(cd) = 0
    THEN [ cd |-> [cd EXCEPT !.gains = NaNGains(cd)],
           out |-> <<AllFlaggedMsg>>,
           calls |-> {} ]
    ELSE LET looped == PerPolLoop([cd |-> cd, out |-> << >>, calls |-> {}],
                                  ExpandInPolarization(cd), 0, verb, nc)
         IN  [ cd |-> IF CrosspolApplies(looped.cd, gcp)
                      THEN ConstrainCrosspolPhase(looped.cd)
                      ELSE looped.cd,
               out |-> looped.out,
               calls |-> looped.calls ]

-----------------------------------------------------------------------------
(* The optimization drivers for abscal (calibration_optimization.py) *)

\* scipy.optimize.minimize with the abscal cost wrappers on one polarization
\* of one channel, or, for the delay-weighted cost, of all channels: a term
\* over the starting point and the slabs the wrappers read.  The sub-problem
\* is named by its first channel and its visibility polarization.
MinimizeAbscal(x0, caldata_per_pol, nc) ==
    LET fs == Idx(caldata_per_pol.model_visibilities)
        sub == [ x0 |-> x0,
                 model |-> [f \in fs |-> caldata_per_pol.model_visibilities[f][0]],
                 data |-> [f \in fs |-> caldata_per_pol.data_visibilities[f][0]],
                 weights |-> [f \in fs |-> caldata_per_pol.visibility_weights[f][0]],
                 dwcal |-> caldata_per_pol.dwcal_inv_covariance ]
        id == <<sub.model[0].f, sub.model[0].vp>>
    IN  [ x |-> [k |-> "x", sub |-> sub, converged |-> id \notin nc],
          id |-> id,
          success |-> id \notin nc,
          message |-> [ k |-> "message", f |-> id[1], vp |-> id[2],
                        success |-> id \notin nc ] ]

AbscalPolStep_IntoSubModel(cd, caldata_per_pol, feed_pol_ind, verb, nc) ==
    LET res == MinimizeAbscal(caldata_per_pol.abscal_params[0][0], caldata_per_pol, nc)
    IN  [ cd |-> [caldata_per_pol EXCEPT !.abscal_params[0][0] = res.x],
          out |-> Report(verb, res),
          calls |-> {res.id} ]

\* one pass of the loop of run_abscal_optimization_single_freq
AbscalPolStep(cd, caldata_per_pol, feed_pol_ind, verb, nc) ==
    LET res == MinimizeAbscal(caldata_per_pol.abscal_params[0][0], caldata_per_pol, nc)
    IN  [ cd |-> [cd EXCEPT !.abscal_params[0][feed_pol_ind] = res.x],
          out |-> Report(verb, res),
          calls |-> {res.id} ]

RECURSIVE AbscalPolLoop(_, _, _, _, _)
AbscalPolLoop(acc, list, feed_pol_ind, verb, nc) ==
    IF feed_pol_ind \notin DOMAIN list
    THEN acc
    ELSE LET s == AbscalPolStep(acc.cd, list[feed_pol_ind], feed_pol_ind, verb, nc)
         IN  AbscalPolLoop([ cd |-> s.cd,
                             out |-> acc.out \o s.out,
                             calls |-> acc.calls \cup s.calls ],
                           list, feed_pol_ind + 1, verb, nc)

RunAbscalOptimizationSingleFreq(cd, verb, nc) ==
    AbscalPolLoop([cd |-> cd, out |-> << >>, calls |-> {}],
                  ExpandInPolarization(cd), 0, verb, nc)

\* np.reshape(result.x, (3, Nfreqs))[:, f]
ReshapeAt(x, f) == [k |-> "xf", f |-> f, x |-> x]

DwAbscalPolStep_EveryColumn(cd, caldata_per_pol, feed_pol_ind, verb, nc) ==
    LET abscal_params_flattened ==
            [f \in Idx(caldata_per_pol.abscal_params) |->
                caldata_per_pol.abscal_params[f][0]]
        res == MinimizeAbscal(abscal_params_flattened, caldata_per_pol, nc)
    IN  [ cd |-> [cd EXCEPT !.abscal_params =
                     [f \in Idx(cd.abscal_params) |->
                         [q \in Idx(cd.abscal_params[f]) |-> ReshapeAt(res.x, f)]]],
          out |-> Report(verb, res),
          calls |-> {res.id} ]

\* one pass of the loop of run_dw_abscal_optimization
DwAbscalPolStep(cd, caldata_per_pol, feed_pol_ind, verb, nc) ==
    LET abscal_params_flattened ==
            [f \in Idx(caldata_per_pol.abscal_params) |->
                caldata_per_pol.abscal_params[f][0]]
        res == MinimizeAbscal(abscal_params_flattened, caldata_per_pol, nc)
    IN  [ cd |-> [cd EXCEPT !.abscal_params =
                     [f \in Idx(cd.abscal_params) |->
                         [cd.abscal_params[f] EXCEPT
                             ![feed_pol_ind] = ReshapeAt(res.x, f)]]],
          out |-> Report(verb, res),
          calls |-> {res.id} ]

RECURSIVE DwAbscalPolLoop(_, _, _, _, _)
DwAbscalPolLoop(acc, list, feed_pol_ind, verb, nc) ==
    IF feed_pol_ind \notin DOMAIN list
    THEN acc
    ELSE LET s == DwAbscalPolStep(acc.cd, list[feed_pol_ind], feed_pol_ind, verb, nc)
         IN  DwAbscalPolLoop([ cd |-> s.cd,
                               out |-> acc.out \o s.out,
                               calls |-> acc.calls \cup s.calls ],
                             list, feed_pol_ind + 1, verb, nc)

RunDwAbscalOptimization(cd, verb, nc) ==
    DwAbscalPolLoop([cd |-> cd, out |-> << >>, calls |-> {}],
                    ExpandInPolarization(cd), 0, verb, nc)

-----------------------------------------------------------------------------
(* calibrate_caldata_per_pol and calibration_per_pol (calibration_wrappers.py) *)

Raise(exc) ==
    /\ pc' = "error"
    /\ raised' = exc

\* lines 117-121: the pool exists only when parallel is set
WrapperCreatePool ==
    /\ pc = "wrap_entry"
    /\ pool' = IF parallel THEN "open" ELSE "unbound"
    /\ pc' = "wrap_loaded"
    /\ UNCHANGED <<caldata_obj, parallel, verbose, get_crosspol_phase,
                   nonconv, caldata_list, freq_ind, pending, result, finished, stdout,
                   optcalls, dispatched, entry, raised, prev,
                   auxvars, purevars>>

\* lines 171-174: a single channel turns parallel off and closes the pool
WrapperSingleChannel ==
    /\ pc = "wrap_loaded"
    /\ IF caldata_obj.Nfreqs < 2
       THEN /\ parallel' = FALSE
            /\ IF pool = "unbound"
               THEN Raise("UnboundLocalError") /\ UNCHANGED pool
               ELSE pool' = "joined" /\ pc' = "wrap_call" /\ UNCHANGED raised
       ELSE /\ pc' = "wrap_call"
            /\ UNCHANGED <<parallel, pool, raised>>
    /\ UNCHANGED <<caldata_obj, verbose, get_crosspol_phase, nonconv,
                   caldata_list, freq_ind, pending, result, finished, stdout, optcalls,
                   dispatched, entry, prev,
                   auxvars, purevars>>

\* lines 183-191: the call reads the local variable pool
WrapperCall ==
    /\ pc = "wrap_call"
    /\ IF pool = "unbound"
       THEN Raise("UnboundLocalError")
       ELSE pc' = "cal_entry" /\ UNCHANGED raised
    /\ UNCHANGED <<caldata_obj, parallel, verbose, get_crosspol_phase,
                   nonconv, pool, caldata_list, freq_ind, pending, result, finished,
                   stdout, optcalls, dispatched, entry, prev,
                   auxvars, purevars>>

\* lines 193-205: convert_to_uvcal and return
WrapperReturn ==
    /\ pc = "cal_done"
    /\ entry = "calibration_per_pol"
    /\ pc' = "wrap_done"
    /\ UNCHANGED <<caldata_obj, parallel, verbose, get_crosspol_phase,
                   nonconv, pool, caldata_list, freq_ind, pending, result, finished,
                   stdout, optcalls, dispatched, entry, raised, prev,
                   auxvars, purevars>>

\* lines 242-245
CalibrateAllFlagged ==
    /\ pc = "cal_entry"
    /\ MaxWeight(caldata_obj) = 0
    /\ stdout' = Append(stdout, AllFlaggedMsg)
    /\ caldata_obj' = [caldata_obj EXCEPT !.gains = NaNGains(caldata_obj)]
    /\ pc' = "cal_done"
    /\ UNCHANGED <<parallel, verbose, get_crosspol_phase, nonconv, pool,
                   caldata_list, freq_ind, pending, result, finished, optcalls,
                   dispatched, entry, raised, prev,
                   auxvars, purevars>>

\* lines 249-268: the tasks of pool.starmap, one per frequency index
CalibrateParallelStart ==
    /\ pc = "cal_entry"
    /\ MaxWeight(caldata_obj) # 0
    /\ parallel
    /\ caldata_list' = ExpandInFrequency(caldata_obj)
    /\ IF pool = "open"
       THEN /\ pending' = 0 .. (caldata_obj.Nfreqs - 1)
            /\ dispatched' = TRUE
            /\ pc' = "par_wait"
            /\ UNCHANGED raised
       ELSE /\ Raise(IF pool = "none" THEN "AttributeError" ELSE "ValueError")
            /\ UNCHANGED <<pending, dispatched>>
    /\ UNCHANGED <<caldata_obj, parallel, verbose, get_crosspol_phase,
                   nonconv, pool, freq_ind, result, finished, stdout, optcalls, entry,
                   prev,
                   auxvars, purevars>>

\* a worker runs run_calibration_optimization_per_pol_single_freq on its copy
\* of args_list[i] with return_gains=True; starmap files the value under i
WorkerResult(i) ==
    RunCalibrationOptimizationPerPolSingleFreq(caldata_list[i], verbose,
                                               get_crosspol_phase, nonconv)

StarmapStore_ByCompletion(res, fin, i, val) == (Len(fin) :> val) @@ res

StarmapStore(res, fin, i, val) == (i :> val) @@ res

WorkerFinish(i) ==
    /\ pc = "par_wait"
    /\ i \in pending
    /\ LET r == WorkerResult(i)
       IN  /\ result' = StarmapStore(result, finished, i, r.cd.gains)
           /\ stdout' = stdout \o r.out
           /\ optcalls' = optcalls \cup r.calls
    /\ pending' = pending \ {i}
    /\ finished' = Append(finished, i)
    /\ UNCHANGED <<caldata_obj, parallel, verbose, get_crosspol_phase,
                   nonconv, pool, pc, caldata_list, freq_ind, dispatched, entry, raised,
                   prev,
                   auxvars, purevars>>

\* lines 269-272: caldata_obj.gains[:, [freq_ind], :] = result[freq_ind]
GatherGains(cd, res) ==
    [cd EXCEPT !.gains = [f \in Idx(cd.gains) |-> res[f][0]]]

CalibrateParallelGather ==
    /\ pc = "par_wait"
    /\ pending = {}
    /\ pool' = "joined"
    /\ caldata_obj' = GatherGains(caldata_obj, result)
    /\ pc' = "cal_done"
    /\ UNCHANGED <<parallel, verbose, get_crosspol_phase, nonconv,
                   caldata_list, freq_ind, pending, result, finished, stdout, optcalls,
                   dispatched, entry, raised, prev,
                   auxvars, purevars>>

\* lines 249, 273-274
CalibrateSequentialStart ==
    /\ pc = "cal_entry"
    /\ MaxWeight(caldata_obj) # 0
    /\ ~parallel
    /\ caldata_list' = ExpandInFrequency(caldata_obj)
    /\ freq_ind' = 0
    /\ pc' = "seq_loop"
    /\ UNCHANGED <<caldata_obj, parallel, verbose, get_crosspol_phase,
                   nonconv, pool, pending, result, finished, stdout, optcalls,
                   dispatched, entry, raised, prev,
                   auxvars, purevars>>

ReadBackGains_FirstSlice(cd, list, i) ==
    [cd EXCEPT !.gains[i] = list[0].gains[0]]

\* lines 282-284: caldata_obj.gains[:, [freq_ind], :] =
\*                caldata_list[freq_ind].gains[:, [0], :]
ReadBackGains(cd, list, i) ==
    [cd EXCEPT !.gains[i] = list[i].gains[0]]

\* lines 274-284: one pass of the sequential loop
CalibrateSequentialStep ==
    /\ pc = "seq_loop"
    /\ LET r == RunCalibrationOptimizationPerPolSingleFreq(
                    caldata_list[freq_ind], verbose, get_crosspol_phase, nonconv)
           list == [caldata_list EXCEPT ![freq_ind] = r.cd]
       IN  /\ caldata_list' = list
           /\ caldata_obj' = ReadBackGains(caldata_obj, list, freq_ind)
           /\ stdout' = stdout \o r.out
           /\ optcalls' = optcalls \cup r.calls
    /\ freq_ind' = freq_ind + 1
    /\ pc' = IF freq_ind + 1 < caldata_obj.Nfreqs THEN "seq_loop" ELSE "cal_done"
    /\ UNCHANGED <<parallel, verbose, get_crosspol_phase, nonconv, pool,
                   pending, result, finished, dispatched, entry, raised, prev,
                   auxvars, purevars>>

CalibrateNext ==
    \/ CalibrateAllFlagged
    \/ CalibrateParallelStart
    \/ \E i \in 0 .. (MaxFreqs - 1) : WorkerFinish(i)
    \/ CalibrateParallelGather
    \/ CalibrateSequentialStart
    \/ CalibrateSequentialStep

-----------------------------------------------------------------------------
(* Inputs *)

\* (feed_polarization_array, vis_polarization_array) as load_data leaves them
PolConfigs ==
    { <<<<PolX>>, <<PolX>>>>,
      <<<<PolX, PolY>>, <<PolX, PolY>>>>,
      <<<<PolX, PolY>>, <<PolX, PolY, PolXY, PolYX>>>> }

IsCross(code) == code \in {PolXY, PolYX}

\* the weights of one channel: with XX and YY alone any pattern on each; with
\* the cross polarizations present each polarization is flagged as a whole,
\* XY and YX together
ChannelWeights(vis_pols) ==
    { cw \in [0 .. (Len(vis_pols) - 1) -> WeightPatterns] :
        \A i, j \in 0 .. (Len(vis_pols) - 1) :
            /\ Len(vis_pols) = 4 => cw[i] \in CrossWeightPatterns
            /\ (IsCross(vis_pols[i + 1]) /\ IsCross(vis_pols[j + 1])) => cw[i] = cw[j] }

NoVersions(nf) == [f \in 0 .. (nf - 1) |-> 0]

\* caldata_obj is some loaded data set
SomeInput ==
    \E nf \in 1 .. MaxFreqs : \E cfg \in PolConfigs :
        \E w \in [0 .. (nf - 1) -> ChannelWeights(cfg[2])] :
            caldata_obj = LoadData(nf, cfg[1], cfg[2], w, NoVersions(nf))

CalIdle ==
    /\ caldata_list = << >>
    /\ freq_ind = 0
    /\ pending = {}
    /\ result = << >>
    /\ finished = << >>
    /\ stdout = << >>
    /\ optcalls = {}
    /\ dispatched = FALSE
    /\ raised = "none"
    /\ prev = [k |-> "none"]
    /\ returned = None

ApplyIdle ==
    /\ uvdata = None
    /\ uvdata_new = None
    /\ apply_args = None
    /\ vis_pol_ind = 0

DwIdle ==
    /\ dw_args = None
    /\ bl_ind = 0
    /\ dwcal_variance_use = << >>

PureIdle ==
    /\ hess_blocks = None
    /\ hess_flattened = None
    /\ fit_vector = None
    /\ initial_abscal_params = {}

Idle == CalIdle /\ ApplyIdle /\ DwIdle /\ PureIdle

\* a direct call of calibrate_caldata_per_pol; the caller hands over a
\* running pool when it asks for parallel (the docstring's requirement)
InitGain ==
    /\ SomeInput
    /\ parallel \in BOOLEAN
    /\ verbose = FALSE
    /\ get_crosspol_phase = TRUE
    /\ nonconv = {}
    /\ pool = IF parallel THEN "open" ELSE "none"
    /\ entry = "calibrate_caldata_per_pol"
    /\ pc = "cal_entry"
    /\ Idle

NextGain == CalibrateNext

SpecGain == InitGain /\ [][NextGain]_vars

-----------------------------------------------------------------------------
(* Properties of gain calibration *)

\* calibrate_caldata_per_pol has returned
CalDone == pc \in {"cal_done", "wrap_done"}

FreqInds == Idx(caldata_obj.gains)
FeedPolInds == Idx(caldata_obj.feed_polarization_array)
VisPolInds == Idx(caldata_obj.vis_polarization_array)

\* the object as it was handed to the driver: the drivers write gains only
InputOf(cd) ==
    [cd EXCEPT !.gains = [f \in Idx(cd.gains) |->
                            [p \in Idx(cd.gains[f]) |->
                                GainInit(f, p, cd.model_visibilities[f][0].ver)]]]

\* the visibility polarization calibrated for feed polarization index p
SkyOf(p) == SkyPolInd(caldata_obj, caldata_obj.feed_polarization_array[p])

ChannelFlagged(f) ==
    \A vp \in VisPolInds : caldata_obj.visibility_weights[f][vp] = ZeroWeights

SubproblemFlagged(f, p) == caldata_obj.visibility_weights[f][SkyOf(p)] = ZeroWeights

AntennaFlagged(a, f, p) ==
    \A b \in Bls :
        (BlAnt1[b] = a \/ BlAnt2[b] = a) => caldata_obj.visibility_weights[f][SkyOf(p)][b] = 0

\* gains of the single-channel solve of channel f of the input
SingleChannelSolution(f) ==
    RunCalibrationOptimizationPerPolSingleFreq(
        ExpandInFrequency(InputOf(caldata_obj))[f], verbose, get_crosspol_phase,
        nonconv).cd.gains

\* C1: when every entry of visibility_weights is zero the optimizer is never
\* invoked and the call leaves every entry of gains NaN; the same holds of
\* the single-channel solve of a channel whose weights are all zero.
C1_AllFlaggedAllNaN ==
    /\ MaxWeight(caldata_obj) = 0 =>
          /\ optcalls = {}
          /\ CalDone => \A f \in FreqInds : \A p \in FeedPolInds : \A a \in Ants :
                           GainAt(caldata_obj.gains, a, f, p) = NaN
    /\ \A f \in FreqInds : ChannelFlagged(f) =>
          /\ \A c \in optcalls : c[1] # f
          /\ CalDone => \A p \in FeedPolInds : \A a \in Ants :
                           GainAt(caldata_obj.gains, a, f, p) = NaN

C1_Witness ==
    /\ CalDone
    /\ caldata_obj.Nfreqs = 2
    /\ caldata_obj.N_vis_pols = 4
    /\ MaxWeight(caldata_obj) = 0
    /\ caldata_obj.gains[1][1] = NaN

\* C2: after gain calibration, a (channel, feed polarization) sub-problem
\* whose weights are all zero while the channel has a positive weight elsewhere
\* was not handed to the optimizer and its gains are NaN.
C2_FlaggedSubproblemNaN ==
    CalDone =>
        \A f \in FreqInds : \A p \in FeedPolInds :
            (SubproblemFlagged(f, p) /\ ~ChannelFlagged(f)) =>
                /\ <<f, SkyOf(p)>> \notin optcalls
                /\ \A a \in Ants : GainAt(caldata_obj.gains, a, f, p) = NaN

\* C3: in a parallel run every value starmap has filed under index i is the
\* solution of the sub-problem built from channel i, and after the gather the
\* gains at frequency index f are the value filed under f, in whatever order
\* the workers finished.
C3_ResultsByFrequencyIndex ==
    /\ \A i \in DOMAIN result : result[i] = SingleChannelSolution(i)
    /\ (CalDone /\ dispatched) =>
          \A f \in FreqInds : caldata_obj.gains[f] = SingleChannelSolution(f)[0]

C3_Witness ==
    /\ CalDone
    /\ dispatched
    /\ finished = <<1, 0>>
    /\ caldata_obj.gains[0][0] # NaN
    /\ caldata_obj.gains[1][0] # NaN

\* C4: with parallel set or not, the gains calibrate_caldata_per_pol leaves
\* are, channel by channel, those of the single-channel solves of the input.
C4_EqualsPerChannelSolves ==
    (CalDone /\ raised = "none") =>
        caldata_obj.gains =
            [f \in FreqInds |->
                RunCalibrationOptimizationPerPolSingleFreq(
                    ExpandInFrequency(InputOf(caldata_obj))[f], verbose,
                    get_crosspol_phase, nonconv).cd.gains[0]]

C4_Witness ==
    /\ CalDone
    /\ ~parallel
    /\ ~dispatched
    /\ caldata_obj.Nfreqs = 2
    /\ caldata_obj.gains[0][0].k = "fit"
    /\ caldata_obj.gains[1][0] = NaN

\* C10: after gain calibration, an antenna all of whose baselines have zero
\* weight at (f, p), while another baseline has positive weight there, has a
\* NaN gain at (f, p).
C10_FlaggedAntennaNaN ==
    CalDone =>
        \A a \in Ants : \A f \in FreqInds : \A p \in FeedPolInds :
            (AntennaFlagged(a, f, p) /\ ~SubproblemFlagged(f, p)) =>
                GainAt(caldata_obj.gains, a, f, p) = NaN

-----------------------------------------------------------------------------
(* calibration_per_pol called from the start *)

InitWrap ==
    /\ SomeInput
    /\ parallel \in BOOLEAN
    /\ verbose = FALSE
    /\ get_crosspol_phase = TRUE
    /\ nonconv = {}
    /\ pool = "unbound"
    /\ entry = "calibration_per_pol"
    /\ pc = "wrap_entry"
    /\ Idle

NextWrap ==
    \/ WrapperCreatePool
    \/ WrapperSingleChannel
    \/ WrapperCall
    \/ WrapperReturn
    \/ CalibrateNext

SpecWrap == InitWrap /\ [][NextWrap]_vars

\* C6: whenever Nfreqs < 2 or parallel is false, gain calibration hands
\* nothing to a worker pool, raises no error from a pool that was never
\* created, and the channels are solved by the sequential loop.
C6_SequentialWithoutPool ==
    (caldata_obj.Nfreqs < 2 \/ ~parallel) =>
        /\ ~dispatched
        /\ pending = {}
        /\ raised = "none"
        /\ pc # "par_wait"

-----------------------------------------------------------------------------
(* Two calls of calibrate_caldata_per_pol on data sets that differ in one
   channel *)

FeedXY == <<PolX, PolY>>

\* the data set of the other run: channel g holds other data, other initial
\* gains and the weights w; the remaining channels are those of cd
ReplaceChannel(cd, g, w) ==
    [cd EXCEPT !.gains[g] = [p \in Idx(cd.gains[g]) |-> GainInit(g, p, 1)],
               !.model_visibilities[g] =
                   [vp \in Idx(cd.model_visibilities[g]) |-> VisToken("model", g, vp, 1)],
               !.data_visibilities[g] =
                   [vp \in Idx(cd.data_visibilities[g]) |-> VisToken("data", g, vp, 1)],
               !.visibility_weights[g] =
                   [vp \in Idx(cd.visibility_weights[g]) |-> w]]

\* the caller keeps the gains of the finished run and calls again
CallAgain ==
    /\ pc = "cal_done"
    /\ prev.k = "none"
    /\ \E g \in Idx(caldata_obj.gains) : \E w \in CrossWeightPatterns :
          /\ prev' = [k |-> "run", input |-> InputOf(caldata_obj),
                      gains |-> caldata_obj.gains, changed |-> g]
          /\ caldata_obj' = ReplaceChannel(InputOf(caldata_obj), g, w)
    /\ pool' = IF parallel THEN "open" ELSE "none"
    /\ pc' = "cal_entry"
    /\ caldata_list' = << >>
    /\ freq_ind' = 0
    /\ pending' = {}
    /\ result' = << >>
    /\ finished' = << >>
    /\ stdout' = << >>
    /\ optcalls' = {}
    /\ dispatched' = FALSE
    /\ UNCHANGED <<parallel, verbose, get_crosspol_phase, nonconv, entry, raised,
                   auxvars, purevars>>

InitPair ==
    /\ \E w \in [0 .. (MaxFreqs - 1) -> ChannelWeights(FeedXY)] :
          caldata_obj = LoadData(MaxFreqs, FeedXY, FeedXY, w, NoVersions(MaxFreqs))
    /\ parallel \in BOOLEAN
    /\ verbose = FALSE
    /\ get_crosspol_phase = TRUE
    /\ nonconv = {}
    /\ pool = IF parallel THEN "open" ELSE "none"
    /\ entry = "calibrate_caldata_per_pol"
    /\ pc = "cal_entry"
    /\ Idle

NextPair == CalibrateNext \/ CallAgain

SpecPair == InitPair /\ [][NextPair]_vars

\* channel f of the two inputs agrees: model, data, weights, initial gains
AgreeAt(in1, in2, f) ==
    /\ in1.gains[f] = in2.gains[f]
    /\ in1.model_visibilities[f] = in2.model_visibilities[f]
    /\ in1.data_visibilities[f] = in2.data_visibilities[f]
    /\ in1.visibility_weights[f] = in2.visibility_weights[f]

SharedMetadataAgrees(in1, in2) ==
    /\ in1.Nfreqs = in2.Nfreqs
    /\ in1.feed_polarization_array = in2.feed_polarization_array
    /\ in1.vis_polarization_array = in2.vis_polarization_array
    /\ in1.freq_array = in2.freq_array

\* C5: two finished runs whose inputs agree on channel f and on the shared
\* metadata have the same output gains at channel f, whatever the other
\* channels hold.
C5_ChannelIndependent ==
    (CalDone /\ prev.k = "run"
       /\ SharedMetadataAgrees(prev.input, InputOf(caldata_obj))) =>
        \A f \in FreqInds :
            AgreeAt(prev.input, InputOf(caldata_obj), f) =>
                caldata_obj.gains[f] = prev.gains[f]

\* the second run is over; its channel 0 was fully flagged, the first run's
\* was not, and channel 1 was solved in both
C5_Witness ==
    /\ CalDone
    /\ prev.k = "run"
    /\ prev.changed = 0
    /\ ChannelFlagged(0)
    /\ prev.gains[0][0] # NaN
    /\ AgreeAt(prev.input, InputOf(caldata_obj), 1)
    /\ caldata_obj.gains[1][0].k = "fit"
    /\ caldata_obj.gains[1] = prev.gains[1]

-----------------------------------------------------------------------------
(* absolute_calibration and dw_absolute_calibration (calibration_wrappers.py) *)

\* lines 421-422
AbscalStart ==
    /\ pc = "abs_entry"
    /\ caldata_list' = ExpandInFrequency(caldata_obj)
    /\ freq_ind' = 0
    /\ pc' = IF caldata_obj.Nfreqs > 0 THEN "abs_loop" ELSE "abs_done"
    /\ UNCHANGED <<caldata_obj, parallel, verbose, get_crosspol_phase, nonconv,
                   pool, pending, result, finished, stdout, optcalls, dispatched,
                   entry, raised, prev,
                   auxvars, purevars>>

\* lines 433-435: caldata_obj.abscal_params[:, [freq_ind], :] =
\*                caldata_list[freq_ind].abscal_params[:, [0], :]
ReadBackAbscal(cd, list, i) ==
    [cd EXCEPT !.abscal_params[i] = list[i].abscal_params[0]]

\* lines 426-435: one pass of the loop over the channels
AbscalStep ==
    /\ pc = "abs_loop"
    /\ LET r == RunAbscalOptimizationSingleFreq(caldata_list[freq_ind], verbose, nonconv)
           list == [caldata_list EXCEPT ![freq_ind] = r.cd]
       IN  /\ caldata_list' = list
           /\ caldata_obj' = ReadBackAbscal(caldata_obj, list, freq_ind)
           /\ stdout' = stdout \o r.out
           /\ optcalls' = optcalls \cup r.calls
    /\ freq_ind' = freq_ind + 1
    /\ pc' = IF freq_ind + 1 < caldata_obj.Nfreqs THEN "abs_loop" ELSE "abs_done"
    /\ UNCHANGED <<parallel, verbose, get_crosspol_phase, nonconv, pool,
                   pending, result, finished, dispatched, entry, raised, prev,
                   auxvars, purevars>>

\* the seeds of np.random.normal
Noise == {0, 1}

\* caldata_obj.abscal_params.flatten(): the number of entries of the vector
FlattenedSize(cd) == 3 * cd.Nfreqs * cd.N_feed_pols

\* np.reshape(abscal_parameters_flattened, (3, caldata_obj.Nfreqs)) in the
\* cost and Jacobian wrappers
ReshapeError(size, cd) == IF size = 3 * cd.Nfreqs THEN "none" ELSE "ValueError"

\* line 772 binds caldata_obj.abscal_params to the caller's array: what is
\* written into the one is written into the other
Aliased(arg, cd) == IF arg = {} THEN {} ELSE {cd.abscal_params}

\* lines 796-816: the initial cost is printed and the parameters perturbed
InitialCost(cd) == [k |-> "Initial cost", at |-> cd.abscal_params]

Perturb(cd, seed) ==
    [cd EXCEPT !.abscal_params =
        [f \in Idx(cd.abscal_params) |->
            [p \in Idx(cd.abscal_params[f]) |->
                [k |-> "perturbed", of |-> cd.abscal_params[f][p], seed |-> seed]]]]

DwAbscalPerturb ==
    /\ pc = "dw_entry"
    /\ IF ReshapeError(FlattenedSize(caldata_obj), caldata_obj) # "none"
       THEN /\ Raise(ReshapeError(FlattenedSize(caldata_obj), caldata_obj))
            /\ UNCHANGED <<caldata_obj, stdout, initial_abscal_params>>
       ELSE /\ stdout' = Append(stdout, InitialCost(caldata_obj))
            /\ \E seed \in Noise :
                  /\ caldata_obj' = Perturb(caldata_obj, seed)
                  /\ initial_abscal_params' =
                         Aliased(initial_abscal_params, Perturb(caldata_obj, seed))
            /\ pc' = "dw_opt"
            /\ UNCHANGED raised
    /\ UNCHANGED <<parallel, verbose, get_crosspol_phase, nonconv, pool,
                   caldata_list, freq_ind, pending, result, finished, optcalls,
                   dispatched, entry, prev,
                   auxvars, hess_blocks, hess_flattened, fit_vector>>

\* lines 818-832: the optimization, then the final cost and Jacobian printed
FinalCost(cd) == [k |-> "Final cost", at |-> cd.abscal_params]

FinalJacobian(cd) == [k |-> "Final Jacobian", at |-> cd.abscal_params]

\* run_dw_abscal_optimization, called by dw_absolute_calibration or directly
DwAbscalOptimize ==
    /\ pc = "dw_opt"
    /\ LET r == RunDwAbscalOptimization(caldata_obj, verbose, nonconv)
           final == ReshapeError(FlattenedSize(r.cd), r.cd)
       IN  /\ caldata_obj' = r.cd
           /\ initial_abscal_params' = Aliased(initial_abscal_params, r.cd)
           /\ optcalls' = optcalls \cup r.calls
           /\ IF entry = "run_dw_abscal_optimization"
              THEN /\ stdout' = stdout \o r.out
                   /\ pc' = "dw_done"
                   /\ UNCHANGED raised
              ELSE IF final # "none"
              THEN /\ stdout' = stdout \o r.out
                   /\ Raise(final)
              ELSE /\ stdout' = (stdout \o r.out) \o
                                    <<FinalCost(r.cd), FinalJacobian(r.cd)>>
                   /\ pc' = "dw_done"
                   /\ UNCHANGED raised
    /\ UNCHANGED <<parallel, verbose, get_crosspol_phase, nonconv, pool,
                   caldata_list, freq_ind, pending, result, finished, dispatched,
                   entry, prev,
                   auxvars, hess_blocks, hess_flattened, fit_vector>>

-----------------------------------------------------------------------------
(* The three drivers with an optimizer that may stop early *)

\* get_dwcal_weights_from_delay_spectra has filled the matrix
DwcalMatrix == [k |-> "dwcal_inv_covariance"]

UniformWeights(nf, vis_pols) ==
    { w \in [0 .. (nf - 1) -> [0 .. (Len(vis_pols) - 1) -> WeightPatterns]] :
        \A f \in 0 .. (nf - 1) : \A i, j \in 0 .. (Len(vis_pols) - 1) :
            w[f][i] = w[f][j] }

\* the caller's initial_abscal_params, shape (3, Nfreqs, N_feed_pols)
GivenAbscalParams(nf, feed_pols) ==
    [f \in 0 .. (nf - 1) |-> [p \in 0 .. (Len(feed_pols) - 1) |-> AbscalInit(f, p, 1)]]

DiagEntries ==
    { "calibrate_caldata_per_pol", "absolute_calibration",
      "dw_absolute_calibration", "run_dw_abscal_optimization" }

DelayWeighted(e) == e \in {"dw_absolute_calibration", "run_dw_abscal_optimization"}

\* dw_absolute_calibration is entered after load_data and line 772, with one
\* or two feed polarizations and with or without initial_abscal_params
InitDiag ==
    /\ \E nf \in 1 .. MaxFreqs : \E e \in DiagEntries :
        \E feed \in IF e = "dw_absolute_calibration" THEN {<<PolX>>, FeedXY} ELSE {FeedXY} :
        \E given \in IF e = "dw_absolute_calibration" THEN BOOLEAN ELSE {FALSE} :
        \E w \in UniformWeights(nf, feed) :
          /\ entry = e
          /\ pc = CASE e = "calibrate_caldata_per_pol" -> "cal_entry"
                    [] e = "absolute_calibration" -> "abs_entry"
                    [] e = "dw_absolute_calibration" -> "dw_entry"
                    [] OTHER -> "dw_opt"
          /\ caldata_obj =
                [LoadData(nf, feed, feed, w, NoVersions(nf)) EXCEPT
                    !.dwcal_inv_covariance =
                        IF DelayWeighted(e) THEN DwcalMatrix ELSE None,
                    !.abscal_params =
                        IF given THEN GivenAbscalParams(nf, feed) ELSE @]
          /\ initial_abscal_params =
                IF given THEN {GivenAbscalParams(nf, feed)} ELSE {}
          /\ \E nc \in SUBSET ((0 .. (nf - 1)) \X {0, 1}) :
                /\ Cardinality(nc) <= 1
                /\ nonconv = nc
    /\ parallel = FALSE
    /\ verbose \in BOOLEAN
    /\ get_crosspol_phase = TRUE
    /\ pool = "none"
    /\ CalIdle
    /\ ApplyIdle
    /\ DwIdle
    /\ hess_blocks = None
    /\ hess_flattened = None
    /\ fit_vector = None

NextDiag ==
    \/ CalibrateAllFlagged
    \/ CalibrateSequentialStart
    \/ CalibrateSequentialStep
    \/ AbscalStart
    \/ AbscalStep
    \/ DwAbscalPerturb
    \/ DwAbscalOptimize

SpecDiag == InitDiag /\ [][NextDiag]_vars

DriverDone == pc \in {"cal_done", "abs_done", "dw_done"}

\* the optimizer was run on sub-problem id and stopped without converging
StoppedEarly(id) == id \in nonconv /\ id \in optcalls

TerminationMessage(id) ==
    [k |-> "message", f |-> id[1], vp |-> id[2], success |-> FALSE]

Printed(m) == \E i \in 1 .. Len(stdout) : stdout[i] = m

\* the parameters the driver has stored for sub-problem id are the
\* optimizer's unconverged answer
UsesReturned(id) ==
    CASE entry = "calibrate_caldata_per_pol" ->
            /\ caldata_obj.gains[id[1]][id[2]].k = "fit"
            /\ ~caldata_obj.gains[id[1]][id[2]].converged
      [] entry = "absolute_calibration" ->
            /\ caldata_obj.abscal_params[id[1]][id[2]].k = "x"
            /\ ~caldata_obj.abscal_params[id[1]][id[2]].converged
      [] OTHER ->
            \A f \in FreqInds :
                /\ caldata_obj.abscal_params[f][id[2]].k = "xf"
                /\ ~caldata_obj.abscal_params[f][id[2]].x.converged

\* C7 as stated: after an optimization that stopped without converging the
\* driver has raised nothing, holds the returned parameters, and the
\* termination message is on the output for every value of verbose.
C7_MessageAlwaysEmitted ==
    \A id \in nonconv :
        (DriverDone /\ StoppedEarly(id)) =>
            /\ raised = "none"
            /\ UsesReturned(id)
            /\ Printed(TerminationMessage(id))

\* C7 amended: the driver raises nothing and holds the returned parameters;
\* the termination message is on the output exactly when verbose is set.
C7_MessageWhenVerbose ==
    \A id \in nonconv :
        (DriverDone /\ StoppedEarly(id)) =>
            /\ raised = "none"
            /\ UsesReturned(id)
            /\ Printed(TerminationMessage(id)) <=> verbose

C7_Witness ==
    /\ DriverDone
    /\ entry = "dw_absolute_calibration"
    /\ verbose
    /\ \E id \in nonconv : StoppedEarly(id) /\ Printed(TerminationMessage(id))

-----------------------------------------------------------------------------
(* apply_abscal (calibration_wrappers.py) *)

\* A visibility is held in polar form, amplitude and phase, both integers;
\* multiplying by amp_term * exp(1j * phase) multiplies the amplitude and adds
\* the phase.
Vis(amp, ph) == [amp |-> amp, ph |-> ph]

\* a local name that no assignment has bound
Unbound == [k |-> "unbound"]

\* antpos_en: east and north coordinates of the antennas
AntEast == (0 :> 0) @@ (1 :> 1) @@ (2 :> 3)
AntNorth == (0 :> 0) @@ (1 :> 2) @@ (2 :> 1)

\* np.where(arr == code)[0]
Where(arr, code) == {i \in Idx(arr) : arr[i] = code}

\* np.where(arr == code)[0][0]
Where0(arr, code) ==
    CHOOSE i \in Where(arr, code) : \A j \in Where(arr, code) : i <= j

RecognizedPols == {PolX, PolY, PolXY, PolYX}

\* lines 506-515: the feed polarization codes of pol1 and pol2
FeedCodes(vis_pol) ==
    CASE vis_pol = PolX -> <<PolX, PolX>>
      [] vis_pol = PolY -> <<PolY, PolY>>
      [] vis_pol = PolXY -> <<PolX, PolY>>
      [] vis_pol = PolYX -> <<PolY, PolX>>

AmpTerm_Sum(params, f, pol1, pol2) == params[f][pol1].amp + params[f][pol2].amp

\* lines 520-522
AmpTerm(params, f, pol1, pol2) == params[f][pol1].amp * params[f][pol2].amp

\* lines 523-535: the exponent of phase_correction
PhaseCorrection(params, b, f, pol1, pol2) ==
    params[f][pol1].phase_x * AntEast[BlAnt1[b]]
    - params[f][pol2].phase_x * AntEast[BlAnt2[b]]
    + params[f][pol1].phase_y * AntNorth[BlAnt1[b]]
    - params[f][pol2].phase_y * AntNorth[BlAnt2[b]]

\* lines 537-544: data_array[:, :, :, vis_pol_ind] *= amp_term * phase_correction
Corrected(uv, params, ind, pol1, pol2) ==
    [uv EXCEPT !.data_array =
        [b \in Bls |->
            [f \in Idx(uv.data_array[b]) |->
                [uv.data_array[b][f] EXCEPT
                    ![ind] = Vis(@.amp * AmpTerm(params, f, pol1, pol2),
                                 @.ph + PhaseCorrection(params, b, f, pol1, pol2))]]]]

\* lines 479-503
ApplyStart ==
    /\ pc = "apply_entry"
    /\ uvdata_new' = IF ~apply_args.inplace THEN uvdata ELSE Unbound
    /\ vis_pol_ind' = 0
    /\ pc' = "apply_loop"
    /\ UNCHANGED <<caldata_obj, parallel, verbose, get_crosspol_phase, nonconv,
                   pool, caldata_list, freq_ind, pending, result, finished, stdout,
                   optcalls, dispatched, entry, raised, prev, uvdata, apply_args,
                   returned, dw_args, bl_ind, dwcal_variance_use, purevars>>

UnrecognizedMsg(vis_pol) == [k |-> "ERROR: Polarization not recognized.", pol |-> vis_pol]

\* lines 505-544: one pass of the loop over uvdata.polarization_array
ApplyPolStep ==
    /\ pc = "apply_loop"
    /\ vis_pol_ind \in Idx(uvdata.polarization_array)
    /\ LET vis_pol == uvdata.polarization_array[vis_pol_ind]
           feed == apply_args.feed_polarization_array
       IN  IF vis_pol \notin RecognizedPols
           THEN /\ stdout' = Append(stdout, UnrecognizedMsg(vis_pol))
                /\ pc' = "exited"
                /\ raised' = "SystemExit"
                /\ UNCHANGED <<uvdata, uvdata_new, vis_pol_ind>>
           ELSE IF \E i \in {1, 2} : Where(feed, FeedCodes(vis_pol)[i]) = {}
           THEN /\ Raise("IndexError")
                /\ UNCHANGED <<uvdata, uvdata_new, vis_pol_ind, stdout>>
           ELSE LET pol1 == Where0(feed, FeedCodes(vis_pol)[1])
                    pol2 == Where0(feed, FeedCodes(vis_pol)[2])
                IN  /\ IF apply_args.inplace
                       THEN /\ uvdata' = Corrected(uvdata, apply_args.abscal_params,
                                                   vis_pol_ind, pol1, pol2)
                            /\ UNCHANGED uvdata_new
                       ELSE /\ uvdata_new' = Corrected(uvdata_new, apply_args.abscal_params,
                                                       vis_pol_ind, pol1, pol2)
                            /\ UNCHANGED uvdata
                    /\ vis_pol_ind' = vis_pol_ind + 1
                    /\ UNCHANGED <<pc, raised, stdout>>
    /\ UNCHANGED <<caldata_obj, parallel, verbose, get_crosspol_phase, nonconv,
                   pool, caldata_list, freq_ind, pending, result, finished,
                   optcalls, dispatched, entry, prev, apply_args,
                   returned, dw_args, bl_ind, dwcal_variance_use, purevars>>

ApplyReturn_ReturnsInput ==
    /\ pc = "apply_loop"
    /\ vis_pol_ind \notin Idx(uvdata.polarization_array)
    /\ returned' = IF ~apply_args.inplace THEN uvdata ELSE None
    /\ pc' = "apply_done"
    /\ UNCHANGED <<caldata_obj, parallel, verbose, get_crosspol_phase, nonconv,
                   pool, caldata_list, freq_ind, pending, result, finished, stdout,
                   optcalls, dispatched, entry, raised, prev, uvdata, uvdata_new,
                   apply_args, vis_pol_ind, dw_args, bl_ind, dwcal_variance_use, purevars>>

\* lines 545-546
ApplyReturn ==
    /\ pc = "apply_loop"
    /\ vis_pol_ind \notin Idx(uvdata.polarization_array)
    /\ returned' = IF ~apply_args.inplace THEN uvdata_new ELSE None
    /\ pc' = "apply_done"
    /\ UNCHANGED <<caldata_obj, parallel, verbose, get_crosspol_phase, nonconv,
                   pool, caldata_list, freq_ind, pending, result, finished, stdout,
                   optcalls, dispatched, entry, raised, prev, uvdata, uvdata_new,
                   apply_args, vis_pol_ind, dw_args, bl_ind, dwcal_variance_use, purevars>>

\* polarization codes a UVData object may carry besides the linear ones:
\* pseudo-Stokes I and circular RR
OtherPols == {1, -1}

CubePolArrays ==
    LET codes == RecognizedPols \cup OtherPols
    IN  {<<c>> : c \in codes}
        \cup {cd \in {<<c, d>> : c \in codes, d \in codes} : cd[1] # cd[2]}

FeedArrays == {<<PolX, PolY>>, <<PolY, PolX>>, <<PolX>>}

UnitParams == [amp |-> 1, phase_x |-> 0, phase_y |-> 0]

ParamChoices == {UnitParams, [amp |-> 2, phase_x |-> 1, phase_y |-> 3]}

\* a cube of MaxFreqs channels
SomeCube(pols) ==
    [ polarization_array |-> Arr(pols),
      data_array |-> [b \in Bls |->
                        [f \in 0 .. (MaxFreqs - 1) |->
                            [vp \in 0 .. (Len(pols) - 1) |-> Vis(1 + b + f, vp)]]] ]

InitApply ==
    /\ \E pols \in CubePolArrays : uvdata = SomeCube(pols)
    /\ \E feed \in FeedArrays : \E inpl \in BOOLEAN :
        \E params \in [0 .. (MaxFreqs - 1) -> [0 .. (Len(feed) - 1) -> ParamChoices]] :
            apply_args = [ abscal_params |-> params,
                           feed_polarization_array |-> Arr(feed),
                           inplace |-> inpl ]
    /\ uvdata_new = Unbound
    /\ vis_pol_ind = 0
    /\ caldata_obj = None
    /\ parallel = FALSE
    /\ verbose = FALSE
    /\ get_crosspol_phase = TRUE
    /\ nonconv = {}
    /\ pool = "none"
    /\ entry = "apply_abscal"
    /\ pc = "apply_entry"
    /\ CalIdle
    /\ DwIdle
    /\ PureIdle

NextApply == ApplyStart \/ ApplyPolStep \/ ApplyReturn

SpecApply == InitApply /\ [][NextApply]_vars

\* C8: apply_abscal on a cube holding a polarization code outside
\* {-5, -6, -7, -8} ends by handing the caller an error, never by ending the
\* process.
C8_UnrecognizedPolNoExit ==
    (entry = "apply_abscal"
       /\ \E i \in Idx(uvdata.polarization_array) :
             uvdata.polarization_array[i] \notin RecognizedPols) =>
        /\ pc # "exited"
        /\ raised # "SystemExit"

-----------------------------------------------------------------------------
(* get_dwcal_weights_from_delay_spectra (calibration_wrappers.py) *)

\* A floating-point array entry is held by its kind: "zero", "fin" (finite
\* and not zero), "inf" or "nan".

\* 1.0 / dwcal_variance_use
Reciprocal(kind) == IF kind = "zero" THEN "inf" ELSE "fin"

\* the kinds np.fft.ifft can give for a row of the given kind: every sum and
\* difference of infinities is an infinity or a NaN, which one depends on the
\* transform's order of operations
IfftKinds(kind) == IF kind = "fin" THEN {"fin"} ELSE {"inf", "nan"}

\* a complex number
Cx(re, im) == [re |-> re, im |-> im]

\* np.conj
Conj(z) == Cx(z.re, 0 - z.im)

\* A row of delay_spectrum_variance, positive throughout, is held by what
\* np.fft.ifft(1.0 / np.interp(...)) makes of it: dc, the mean of the
\* reciprocals, real and positive, at lag 0, and a complex entry at every
\* other lag.  A row of dwcal_variance_use that was never filled is ZeroRow.
ZeroRow == [kind |-> "zero", dc |-> 0, ac |-> Cx(0, 0)]

FilledRow(spectrum) == [kind |-> "fin", dc |-> spectrum.dc, ac |-> spectrum.ac]

\* freq_weighting[b, lag] of a filled row
FreqWeightingAt(row, lag) ==
    IF lag = 0 THEN Cx(row.dc, 0) ELSE Cx(row.ac.re * lag, row.ac.im)

\* lines 606-617: weight_mat[b, freq_ind1, freq_ind2] before the normalization
WeightMat(row, freq_ind1, freq_ind2) ==
    IF freq_ind1 < freq_ind2
    THEN Conj(FreqWeightingAt(row, freq_ind2 - freq_ind1))
    ELSE FreqWeightingAt(row, freq_ind1 - freq_ind2)

RECURSIVE SumOver(_, _)
\* np.sum
SumOver(f, S) ==
    IF S = {} THEN 0
    ELSE LET x == CHOOSE y \in S : TRUE IN f[x] + SumOver(f, S \ {x})

Nbls == Cardinality(Bls)

\* np.sum(np.trace(weight_mat, axis1=1, axis2=2)) when every row is filled
TraceSum(rows, nfreqs) ==
    SumOver([b \in Bls |-> nfreqs * WeightMat(rows[b], 0, 0).re], Bls)

\* an entry of weight_mat after weight_mat *= normalization_factor: its kind
\* and, when it is finite, its value num / den with
\* normalization_factor = Nfreqs * Nbls / TraceSum
WeightEntry(kind, rows, b, freq_ind1, freq_ind2, nfreqs) ==
    IF kind = "fin"
    THEN LET z == WeightMat(rows[b], freq_ind1, freq_ind2)
         IN  [ kind |-> kind,
               num |-> Cx(z.re * nfreqs * Nbls, z.im * nfreqs * Nbls),
               den |-> TraceSum(rows, nfreqs) ]
    ELSE [kind |-> kind, num |-> Cx(0, 0), den |-> 1]

\* np.sum(np.trace(weight_mat, axis1=1, axis2=2))
TraceSumKind(kinds) ==
    IF \E b \in Bls : kinds[b] = "nan" THEN "nan"
    ELSE IF \E b \in Bls : kinds[b] = "inf" THEN "inf"
    ELSE "fin"

\* Nfreqs * Nbls / sum: the kinds the quotient can have
NormalizationKinds(sum) ==
    CASE sum = "fin" -> {"fin"}
      [] sum = "inf" -> {"zero", "nan"}
      [] OTHER -> {"nan"}

\* weight_mat *= normalization_factor
TimesKind(kind, factor) ==
    CASE kind = "nan" \/ factor = "nan" -> "nan"
      [] kind = "inf" /\ factor = "zero" -> "nan"
      [] kind = "inf" -> "inf"
      [] factor = "zero" -> "zero"
      [] OTHER -> "fin"

\* lines 578-587
DwStart ==
    /\ pc = "dwc_entry"
    /\ dwcal_variance_use' = [b \in Bls |-> ZeroRow]
    /\ bl_ind' = 0
    /\ pc' = "dwc_loop"
    /\ UNCHANGED <<caldata_obj, parallel, verbose, get_crosspol_phase, nonconv,
                   pool, caldata_list, freq_ind, pending, result, finished, stdout,
                   optcalls, dispatched, entry, raised, prev, uvdata, uvdata_new,
                   apply_args, vis_pol_ind, returned, dw_args, purevars>>

\* np.where(bl_length_bin_edges <= bl_length)[0]
EdgesBelow(edges, bl_length) == {i \in Idx(edges) : edges[i] <= bl_length}

MaxOf(S) == CHOOSE i \in S : \A j \in S : j <= i

CoverageWarning(bl_length) ==
    [k |-> "WARNING: Baseline length range does not cover baseline. Skipping.",
     bl_length |-> bl_length]

\* lines 588-601: one pass of the loop over bl_lengths
DwBinStep ==
    /\ pc = "dwc_loop"
    /\ bl_ind \in Bls
    /\ LET bl_length == dw_args.bl_lengths[bl_ind]
           edges == dw_args.bl_length_bin_edges
           below == EdgesBelow(edges, bl_length)
       IN  IF below = {}
           THEN /\ Raise("ValueError")
                /\ UNCHANGED <<stdout, dwcal_variance_use, bl_ind>>
           ELSE LET bin_ind == MaxOf(below)
                IN  /\ IF bin_ind = Cardinality(Idx(edges)) - 1
                          \/ ~(edges[bin_ind + 1] > bl_length)
                       THEN /\ stdout' = Append(stdout, CoverageWarning(bl_length))
                            /\ UNCHANGED dwcal_variance_use
                       ELSE /\ dwcal_variance_use' =
                                   [dwcal_variance_use EXCEPT ![bl_ind] =
                                       FilledRow(dw_args.delay_spectrum_variance[bin_ind])]
                            /\ UNCHANGED stdout
                    /\ bl_ind' = bl_ind + 1
                    /\ UNCHANGED <<pc, raised>>
    /\ UNCHANGED <<caldata_obj, parallel, verbose, get_crosspol_phase, nonconv,
                   pool, caldata_list, freq_ind, pending, result, finished,
                   optcalls, dispatched, entry, prev, uvdata, uvdata_new,
                   apply_args, vis_pol_ind, returned, dw_args, purevars>>

\* lines 603-627: the transform, the matrices, the normalization, the store
DwBuild ==
    /\ pc = "dwc_loop"
    /\ bl_ind \notin Bls
    /\ \E freq_weighting \in [Bls -> {"fin", "inf", "nan"}] :
          /\ \A b \in Bls :
                freq_weighting[b] \in IfftKinds(Reciprocal(dwcal_variance_use[b].kind))
          /\ \E normalization_factor \in
                    NormalizationKinds(TraceSumKind(freq_weighting)) :
                caldata_obj' =
                    [caldata_obj EXCEPT !.dwcal_inv_covariance =
                        [b \in Bls |->
                            [freq_ind1 \in 0 .. (caldata_obj.Nfreqs - 1) |->
                                [freq_ind2 \in 0 .. (caldata_obj.Nfreqs - 1) |->
                                    [vp \in Idx(caldata_obj.vis_polarization_array) |->
                                        WeightEntry(
                                            TimesKind(freq_weighting[b],
                                                      normalization_factor),
                                            dwcal_variance_use, b, freq_ind1,
                                            freq_ind2, caldata_obj.Nfreqs)]]]]]
    /\ pc' = "dwc_done"
    /\ UNCHANGED <<parallel, verbose, get_crosspol_phase, nonconv,
                   pool, caldata_list, freq_ind, pending, result, finished, stdout,
                   optcalls, dispatched, entry, raised, prev, uvdata, uvdata_new,
                   apply_args, vis_pol_ind, returned, dw_args, bl_ind,
                   dwcal_variance_use, purevars>>

\* rows of delay_spectrum_variance
BinSpectra == {[dc |-> d, ac |-> Cx(1, i)] : d \in {1, 2}, i \in {-1, 2}}

\* ascending bin edges
EdgeChoices == {<<1, 2>>, <<1, 3>>, <<1, 2, 3>>}

InitDw ==
    /\ \E nf \in 1 .. MaxFreqs :
          caldata_obj = LoadData(nf, FeedXY, FeedXY,
                                 [f \in 0 .. (nf - 1) |-> [vp \in {0, 1} |-> OnesWeights]],
                                 NoVersions(nf))
    /\ \E lengths \in [Bls -> 0 .. MaxLen] : \E edges \in EdgeChoices :
          \E spectra \in [0 .. (Len(edges) - 2) -> BinSpectra] :
             dw_args = [ bl_lengths |-> lengths,
                         bl_length_bin_edges |-> Arr(edges),
                         delay_spectrum_variance |-> spectra ]
    /\ bl_ind = 0
    /\ dwcal_variance_use = << >>
    /\ parallel = FALSE
    /\ verbose = FALSE
    /\ get_crosspol_phase = TRUE
    /\ nonconv = {}
    /\ pool = "none"
    /\ entry = "get_dwcal_weights_from_delay_spectra"
    /\ pc = "dwc_entry"
    /\ CalIdle
    /\ ApplyIdle
    /\ PureIdle

NextDw == DwStart \/ DwBinStep \/ DwBuild

SpecDw == InitDw /\ [][NextDw]_vars

\* baseline b is no longer than the first edge allows, or reaches the last
Uncovered(b) ==
    LET edges == dw_args.bl_length_bin_edges
        last == Cardinality(Idx(edges)) - 1
    IN  dw_args.bl_lengths[b] < edges[0] \/ dw_args.bl_lengths[b] >= edges[last]

KernelKinds(b) ==
    {caldata_obj.dwcal_inv_covariance[b][i][j][vp].kind :
        i \in FreqInds, j \in FreqInds, vp \in VisPolInds}

\* C9: for every baseline outside all bins the builder raises nothing, has
\* printed the warning once the loop is past it, leaves that baseline's
\* kernel all zero, and the kernels of the covered baselines are finite.
C9_UncoveredBaselineZeroKernel ==
    entry = "get_dwcal_weights_from_delay_spectra" =>
        \A b \in Bls : Uncovered(b) =>
            /\ raised = "none"
            /\ (pc = "dwc_loop" /\ bl_ind > b) =>
                  Printed(CoverageWarning(dw_args.bl_lengths[b]))
            /\ pc = "dwc_done" =>
                  /\ KernelKinds(b) = {"zero"}
                  /\ \A c \in Bls : ~Uncovered(c) => KernelKinds(c) \subseteq {"zero", "fin"}

-----------------------------------------------------------------------------
(* Properties of the abscal drivers *)

\* the sub-problem of feed polarization p that the abscal driver forms: one
\* channel f in absolute_calibration, all channels in dw_absolute_calibration
AbscalSubproblemFlagged(f, p) ==
    IF entry = "absolute_calibration"
    THEN SubproblemFlagged(f, p)
    ELSE \A g \in FreqInds : SubproblemFlagged(g, p)

AbscalSubproblemId(f, p) ==
    IF entry = "absolute_calibration" THEN <<f, SkyOf(p)>> ELSE <<0, SkyOf(p)>>

\* C11: after absolute calibration, plain or delay weighted, a
\* per-polarization sub-problem whose weights are all zero has NaN abscal
\* parameters and was not handed to the optimizer.
C11_FlaggedAbscalNaN ==
    (DriverDone /\ entry \in {"absolute_calibration", "dw_absolute_calibration",
                            "run_dw_abscal_optimization"}) =>
        \A f \in FreqInds : \A p \in FeedPolInds :
            AbscalSubproblemFlagged(f, p) =>
                /\ caldata_obj.abscal_params[f][p] = NaN
                /\ AbscalSubproblemId(f, p) \notin optcalls

-----------------------------------------------------------------------------
(* A direct call of run_calibration_optimization_per_pol_single_freq on one
   channel of a data set with any polarization content *)

Min2(a, b) == IF a < b THEN a ELSE b

\* load_data, feed_polarization_array=None: X if XX, XY or YX is among the
\* visibility polarizations, then Y if YY, XY or YX is, cut to N_feed_pols
DefaultFeedPolarizationArray(vis_pols, n_feed_pols) ==
    LET Has(code) == \E i \in 1 .. Len(vis_pols) : vis_pols[i] = code
        x == IF Has(PolX) \/ Has(PolXY) \/ Has(PolYX) THEN <<PolX>> ELSE << >>
        y == IF Has(PolY) \/ Has(PolXY) \/ Has(PolYX) THEN <<PolY>> ELSE << >>
    IN  SubSeq(x \o y, 1, Min2(n_feed_pols, Len(x \o y)))

\* load_data with N_feed_pols=None on a one-channel data set: N_feed_pols is
\* min(2, N_vis_pols) whatever the feed array holds, and gains and
\* abscal_params have N_feed_pols columns.  feed_arg is the caller's
\* feed_polarization_array, the empty set standing for None.
LoadDataDefault(vis_pols, feed_arg, w) ==
    LET n == Min2(2, Len(vis_pols))
        feed == IF feed_arg = {}
                THEN DefaultFeedPolarizationArray(vis_pols, n)
                ELSE CHOOSE given \in feed_arg : TRUE
    IN  [ LoadData(1, feed, vis_pols, w, NoVersions(1)) EXCEPT
            !.N_feed_pols = n,
            !.gains = Arr(<<[p \in 0 .. (n - 1) |-> GainInit(0, p, 0)]>>),
            !.abscal_params = Arr(<<[p \in 0 .. (n - 1) |-> AbscalInit(0, p, 0)]>>) ]

\* what expand_in_polarization raises: np.where(...)[0][0] on a feed
\* polarization that no visibility polarization carries, or a column of gains
\* that does not exist
ExpandError(cd) ==
    IF \E p \in Idx(cd.feed_polarization_array) :
          \/ \A v \in Idx(cd.vis_polarization_array) :
                cd.vis_polarization_array[v] # cd.feed_polarization_array[p]
          \/ p \notin Idx(cd.gains[0])
    THEN "IndexError"
    ELSE "none"

\* what lines 453-470 raise once the test of lines 448-452 has passed
CrosspolError(cd) ==
    LET feed == cd.feed_polarization_array
        CrossMissing ==
            \E code \in {PolXY, PolYX} :
                \A v \in Idx(cd.vis_polarization_array) :
                    cd.vis_polarization_array[v] # code
    IN  IF 0 \notin Idx(feed) THEN "IndexError"
        ELSE IF feed[0] \in {PolX, PolY} /\ 1 \notin Idx(feed) THEN "IndexError"
        ELSE IF feed[0] \in {PolX, PolY} /\ feed[1] \in {PolX, PolY} /\ feed[0] # feed[1]
             THEN (IF CrossMissing THEN "IndexError" ELSE "none")
        ELSE "UnboundLocalError"

\* lines 394-445: the flag test, the expansion and the loop over polarizations
SingleFreqSolve ==
    /\ pc = "sf_entry"
    /\ IF MaxWeight(caldata_obj) = 0
       THEN /\ caldata_obj' = [caldata_obj EXCEPT !.gains = NaNGains(caldata_obj)]
            /\ stdout' = stdout \o <<AllFlaggedMsg>>
            /\ pc' = "sf_done"
            /\ UNCHANGED <<optcalls, raised>>
       ELSE IF ExpandError(caldata_obj) # "none"
       THEN /\ Raise(ExpandError(caldata_obj))
            /\ UNCHANGED <<caldata_obj, stdout, optcalls>>
       ELSE LET looped == PerPolLoop([cd |-> caldata_obj, out |-> << >>, calls |-> {}],
                                     ExpandInPolarization(caldata_obj), 0, verbose,
                                     nonconv)
            IN  /\ caldata_obj' = looped.cd
                /\ stdout' = stdout \o looped.out
                /\ optcalls' = optcalls \cup looped.calls
                /\ pc' = "sf_cross"
                /\ UNCHANGED raised
    /\ UNCHANGED <<parallel, verbose, get_crosspol_phase, nonconv, pool,
                   caldata_list, freq_ind, pending, result, finished, dispatched,
                   entry, prev, auxvars, purevars>>

\* lines 447-479: the crosspolarization phase.  prev keeps the gains as the
\* loop left them.
SingleFreqCrosspol ==
    /\ pc = "sf_cross"
    /\ prev' = [k |-> "per_pol", gains |-> caldata_obj.gains]
    /\ IF ~CrosspolApplies(caldata_obj, get_crosspol_phase)
       THEN /\ pc' = "sf_done"
            /\ UNCHANGED <<caldata_obj, raised>>
       ELSE IF CrosspolError(caldata_obj) # "none"
       THEN /\ Raise(CrosspolError(caldata_obj))
            /\ UNCHANGED caldata_obj
       ELSE /\ caldata_obj' = ConstrainCrosspolPhase(caldata_obj)
            /\ pc' = "sf_done"
            /\ UNCHANGED raised
    /\ UNCHANGED <<parallel, verbose, get_crosspol_phase, nonconv, pool,
                   caldata_list, freq_ind, pending, result, finished, stdout,
                   optcalls, dispatched, entry, auxvars, purevars>>

\* polarization_array of the data set, in the order reorder_pols("AIPS")
\* leaves it: linear or circular feeds, in full or in part
VisPolArrays ==
    { <<PolX, PolY, PolXY, PolYX>>, <<-1, -2, -3, -4>>, <<PolX, PolY, PolXY>>,
      <<PolX, PolY>>, <<PolX>>, <<PolY>> }

\* feed_polarization_array as the caller may give it for these data: not at
\* all, or the two feeds in either order
FeedArgs(vis_pols) ==
    {{}} \cup
    (IF Len(vis_pols) >= 2 /\ vis_pols[1] = PolX /\ vis_pols[2] = PolY
     THEN {{<<PolX, PolY>>}, {<<PolY, PolX>>}}
     ELSE {})

InitCross ==
    /\ \E vis_pols \in VisPolArrays : \E feed_arg \in FeedArgs(vis_pols) :
          \E w \in ChannelWeights(vis_pols) :
             caldata_obj = LoadDataDefault(vis_pols, feed_arg, Arr(<<w>>))
    /\ parallel = FALSE
    /\ verbose = FALSE
    /\ get_crosspol_phase \in BOOLEAN
    /\ nonconv = {}
    /\ pool = "none"
    /\ entry = "run_calibration_optimization_per_pol_single_freq"
    /\ pc = "sf_entry"
    /\ Idle

NextCross == SingleFreqSolve \/ SingleFreqCrosspol

SpecCross == InitCross /\ [][NextCross]_vars

\* the call has returned or raised
SingleFreqEnded == pc \in {"sf_done", "error"}

HasFeed(code) == \E p \in FeedPolInds : caldata_obj.feed_polarization_array[p] = code

HasVis(code) == \E v \in VisPolInds : caldata_obj.vis_polarization_array[v] = code

\* both feed polarizations and all four visibility polarizations are there
FullPolarization ==
    /\ HasFeed(PolX) /\ HasFeed(PolY)
    /\ \A code \in {PolX, PolY, PolXY, PolYX} : HasVis(code)

\* C12: the rotation by the crosspolarization phase is applied exactly when
\* get_crosspol_phase is set and both feed polarizations X, Y and all four
\* visibility polarizations XX, YY, XY, YX are present; in every other case
\* the gains are left unrotated and no error is raised.
C12_RotationExactlyWhenFullPolarization ==
    SingleFreqEnded =>
        IF get_crosspol_phase /\ FullPolarization
        THEN pc = "sf_done" /\
             \A p \in Idx(caldata_obj.gains[0]) :
                 caldata_obj.gains[0][p] = NaN \/ caldata_obj.gains[0][p].k = "rot"
        ELSE raised = "none" /\
             \A p \in Idx(caldata_obj.gains[0]) :
                 caldata_obj.gains[0][p] = NaN \/ caldata_obj.gains[0][p].k # "rot"

\* the index of feed polarization code on the feed axis
FeedInd(code) ==
    CHOOSE p \in FeedPolInds : caldata_obj.feed_polarization_array[p] = code

\* the crosspolarization phase of the X and Y gains that the loop left, for
\* the XY and YX visibilities
CrosspolPhaseXY ==
    LET At(i) == IF i = 0 THEN PolXY ELSE PolYX
    IN  [ k |-> "psi",
          neg |-> FALSE,
          gains |-> [i \in {0, 1} |->
                       prev.gains[0][FeedInd(IF i = 0 THEN PolX ELSE PolY)]],
          model |-> [i \in {0, 1} |->
                       caldata_obj.model_visibilities[0][SkyPolInd(caldata_obj, At(i))]],
          data |-> [i \in {0, 1} |->
                      caldata_obj.data_visibilities[0][SkyPolInd(caldata_obj, At(i))]],
          weights |-> [i \in {0, 1} |->
                         caldata_obj.visibility_weights[0][SkyPolInd(caldata_obj, At(i))]] ]

\* the call returned after turning the gains
CrosspolApplied ==
    /\ pc = "sf_done"
    /\ prev.k = "per_pol"
    /\ CrosspolApplies(caldata_obj, get_crosspol_phase)

\* C13: when the crosspolarization phase psi is applied, the gains of the X
\* feed are multiplied by exp(-i psi/2) and those of the Y feed by
\* exp(+i psi/2), whichever of the two comes first on the feed axis.
C13_XMinusYPlus ==
    CrosspolApplied =>
        \A p \in FeedPolInds :
            caldata_obj.gains[0][p] =
                IF prev.gains[0][p] = NaN
                THEN NaN
                ELSE [ k |-> "rot", g |-> prev.gains[0][p],
                       sgn |-> IF caldata_obj.feed_polarization_array[p] = PolX
                               THEN -1 ELSE 1,
                       psi |-> CrosspolPhaseXY ]

C13_Witness ==
    /\ CrosspolApplied
    /\ caldata_obj.feed_polarization_array[0] = PolY
    /\ caldata_obj.gains[0][0].k = "rot"

-----------------------------------------------------------------------------
(* Properties of apply_abscal *)

\* the cube as it was handed to apply_abscal
InputCube ==
    SomeCube([i \in 1 .. Cardinality(Idx(uvdata.polarization_array)) |->
                 uvdata.polarization_array[i - 1]])

\* every polarization code of the cube is one of -5, -6, -7, -8
LinearCube ==
    \A i \in Idx(uvdata.polarization_array) :
        uvdata.polarization_array[i] \in RecognizedPols

\* amplitude 1 and phase gradients 0 at every frequency and feed polarization
AllUnitParams ==
    \A f \in Idx(apply_args.abscal_params) :
        \A p \in Idx(apply_args.abscal_params[f]) :
            apply_args.abscal_params[f][p] = UnitParams

\* the cube that holds the result once apply_abscal has returned
ResultCube == IF apply_args.inplace THEN uvdata ELSE returned

\* C14: with amplitude 1 and both phase gradients 0 at every frequency and
\* feed polarization, apply_abscal leaves every entry of a cube with
\* polarization codes among -5, -6, -7, -8 equal to its input value: the
\* input cube never changes and the cube that holds the result equals it.
C14_UnitParamsIdentity ==
    (entry = "apply_abscal" /\ LinearCube /\ AllUnitParams) =>
        /\ uvdata.data_array = InputCube.data_array
        /\ pc = "apply_loop" /\ ~apply_args.inplace =>
              uvdata_new.data_array = InputCube.data_array
        /\ pc = "apply_done" => ResultCube.data_array = InputCube.data_array

C14_Witness ==
    /\ pc = "apply_done"
    /\ AllUnitParams
    /\ \E i \in Idx(uvdata.polarization_array) : uvdata.polarization_array[i] = PolXY
    /\ ~apply_args.inplace
    /\ returned.data_array = InputCube.data_array

\* entry (b, f, vp) of the input times amp_term[f] * phase_correction[b, f] of
\* the feed polarizations of visibility polarization vp
CorrectedEntry(b, f, vp) ==
    LET codes == FeedCodes(uvdata.polarization_array[vp])
        feed == apply_args.feed_polarization_array
        pol1 == Where0(feed, codes[1])
        pol2 == Where0(feed, codes[2])
        par == apply_args.abscal_params
        in == InputCube.data_array[b][f][vp]
    IN  Vis(in.amp * par[f][pol1].amp * par[f][pol2].amp,
            in.ph + par[f][pol1].phase_x * AntEast[BlAnt1[b]]
                  - par[f][pol2].phase_x * AntEast[BlAnt2[b]]
                  + par[f][pol1].phase_y * AntNorth[BlAnt1[b]]
                  - par[f][pol2].phase_y * AntNorth[BlAnt2[b]])

HoldsCorrected(cube) ==
    \A b \in Bls : \A f \in Idx(cube.data_array[b]) :
        \A vp \in Idx(cube.polarization_array) :
            cube.data_array[b][f][vp] = CorrectedEntry(b, f, vp)

\* C15: with inplace=False apply_abscal returns a new cube that holds the
\* corrected visibilities and the data of the input cube are never changed;
\* with inplace=True the corrected visibilities are written into the input
\* cube and nothing is returned.
C15_InplaceOrCopy ==
    entry = "apply_abscal" =>
        /\ ~apply_args.inplace => uvdata = InputCube
        /\ pc = "apply_done" =>
              IF apply_args.inplace
              THEN returned = None /\ HoldsCorrected(uvdata)
              ELSE returned # None /\ HoldsCorrected(returned)

C15_WitnessCopy ==
    /\ pc = "apply_done"
    /\ ~apply_args.inplace
    /\ returned.data_array # uvdata.data_array

C15_Witness ==
    /\ pc = "apply_done"
    /\ apply_args.inplace
    /\ uvdata.data_array # InputCube.data_array
    /\ \E i \in Idx(uvdata.polarization_array) : uvdata.polarization_array[i] = PolYX

-----------------------------------------------------------------------------
(* hessian_single_pol_wrapper (calibration_optimization.py): the assembly of
   the matrix handed to the optimizer from the blocks of the cost engine *)

Nants == Cardinality(Ants)

\* an entry written into the float array hess_flattened
StoreFloat(z) == z.re

HessianAssemble_NoTranspose(blocks) ==
    [r \in 0 .. (2 * Nants - 1) |->
        [c \in 0 .. (2 * Nants - 1) |->
            StoreFloat(
                IF r < Nants /\ c < Nants THEN blocks.hess_real_real[r][c]
                ELSE IF r >= Nants /\ c < Nants THEN blocks.hess_real_imag[r - Nants][c]
                ELSE IF r < Nants /\ c >= Nants
                     THEN Conj(blocks.hess_real_imag[r][c - Nants])
                ELSE blocks.hess_imag_imag[r - Nants][c - Nants])]]

\* lines 142-151: hess_flattened[0:Nants, 0:Nants] = hess_real_real,
\* [Nants:, 0:Nants] = hess_real_imag, [0:Nants, Nants:] = conj(hess_real_imag).T,
\* [Nants:, Nants:] = hess_imag_imag
HessianAssemble(blocks) ==
    [r \in 0 .. (2 * Nants - 1) |->
        [c \in 0 .. (2 * Nants - 1) |->
            StoreFloat(
                IF r < Nants /\ c < Nants THEN blocks.hess_real_real[r][c]
                ELSE IF r >= Nants /\ c < Nants THEN blocks.hess_real_imag[r - Nants][c]
                ELSE IF r < Nants /\ c >= Nants
                     THEN Conj(blocks.hess_real_imag[c - Nants][r])
                ELSE blocks.hess_imag_imag[r - Nants][c - Nants])]]

\* lines 142-151
HessianWrapper ==
    /\ pc = "hess_entry"
    /\ hess_flattened' = HessianAssemble(hess_blocks)
    /\ pc' = "hess_done"
    /\ UNCHANGED <<caldata_obj, parallel, verbose, get_crosspol_phase, nonconv,
                   pool, caldata_list, freq_ind, pending, result, finished, stdout,
                   optcalls, dispatched, entry, raised, prev, auxvars,
                   hess_blocks, fit_vector, initial_abscal_params>>

\* symmetric real blocks with unequal entries off the diagonal
SymmetricBlocks ==
    { [i \in Ants |-> [j \in Ants |-> Cx(IF i = j THEN d ELSE o * (i + j), 0)]] :
        d \in {1, 2}, o \in {0, 1} }

\* real blocks, symmetric or not
RealBlocks ==
    { [i \in Ants |-> [j \in Ants |-> Cx(m[i][j], 0)]] : m \in [Ants -> [Ants -> {0, 1}]] }

\* the cost engine has returned three real blocks, the real-real and the
\* imaginary-imaginary one symmetric
InitHess ==
    /\ \E rr \in SymmetricBlocks : \E ri \in RealBlocks : \E ii \in SymmetricBlocks :
          hess_blocks = [ hess_real_real |-> rr,
                          hess_real_imag |-> ri,
                          hess_imag_imag |-> ii ]
    /\ hess_flattened = None
    /\ fit_vector = None
    /\ initial_abscal_params = {}
    /\ caldata_obj = None
    /\ parallel = FALSE
    /\ verbose = FALSE
    /\ get_crosspol_phase = TRUE
    /\ nonconv = {}
    /\ pool = "none"
    /\ entry = "hessian_single_pol_wrapper"
    /\ pc = "hess_entry"
    /\ CalIdle
    /\ ApplyIdle
    /\ DwIdle

NextHess == HessianWrapper

SpecHess == InitHess /\ [][NextHess]_vars

\* C16: the matrix that hessian_single_pol_wrapper assembles equals its
\* transpose, whatever real-real, real-imaginary and imaginary-imaginary
\* blocks the cost engine returned with the first and the last symmetric.
C16_HessianSymmetric ==
    pc = "hess_done" =>
        \A r, c \in 0 .. (2 * Nants - 1) :
            hess_flattened[r][c] = hess_flattened[c][r]

C16_Witness ==
    /\ pc = "hess_done"
    /\ \E i, j \in Ants :
          hess_blocks.hess_real_imag[i][j] # hess_blocks.hess_real_imag[j][i]
    /\ hess_flattened[Nants][1] = hess_blocks.hess_real_imag[0][1].re

-----------------------------------------------------------------------------
(* Properties of the delay-weighting matrices *)

\* the builder has stored dwcal_inv_covariance
DwStored == entry = "get_dwcal_weights_from_delay_spectra" /\ pc = "dwc_done"

\* dwcal_inv_covariance[0, b, i, j, vp]
DwEntry(b, i, j, vp) == caldata_obj.dwcal_inv_covariance[b][i][j][vp]

\* x == y as floating-point numbers: a NaN equals nothing, itself included
SameNumber(x, y) ==
    /\ x.kind \in {"zero", "fin"}
    /\ y.kind \in {"zero", "fin"}
    /\ x.num.re * y.den = y.num.re * x.den
    /\ x.num.im * y.den = y.num.im * x.den

\* |x|^2 == |y|^2
SameMagnitude(x, y) ==
    /\ x.kind \in {"zero", "fin"}
    /\ y.kind \in {"zero", "fin"}
    /\ (x.num.re * x.num.re + x.num.im * x.num.im) * y.den * y.den
          = (y.num.re * y.num.re + y.num.im * y.num.im) * x.den * x.den

ConjEntry(x) == [x EXCEPT !.num = Conj(x.num)]

ToeplitzHermitian(b) ==
    \A vp \in VisPolInds : \A i, j \in FreqInds :
        /\ \A k, l \in FreqInds :
              /\ i - j = k - l => SameNumber(DwEntry(b, i, j, vp), DwEntry(b, k, l, vp))
              /\ (i - j = k - l \/ i - j = l - k) =>
                    SameMagnitude(DwEntry(b, i, j, vp), DwEntry(b, k, l, vp))
        /\ SameNumber(DwEntry(b, j, i, vp), ConjEntry(DwEntry(b, i, j, vp)))
        /\ DwEntry(b, i, i, vp).num.im = 0

SameForEveryPolarization(b) ==
    \A vp, vq \in VisPolInds : \A i, j \in FreqInds :
        SameNumber(DwEntry(b, i, j, vp), DwEntry(b, i, j, vq))

\* C17: the matrix stored for each baseline is Toeplitz (entry (i, j) depends
\* on i - j only, its magnitude on |i - j| only) and Hermitian with a real
\* diagonal, and is the same for every visibility polarization.
C17_ToeplitzHermitian ==
    DwStored => \A b \in Bls : ToeplitzHermitian(b) /\ SameForEveryPolarization(b)

\* the same, of the calls in which every baseline falls in a bin
C17_ToeplitzHermitianWhenCovered ==
    (DwStored /\ \A b \in Bls : ~Uncovered(b)) =>
        \A b \in Bls : ToeplitzHermitian(b) /\ SameForEveryPolarization(b)

\* the sum over the baselines of the traces of the stored matrices is
\* Nfreqs * Nbls: all diagonal entries num / den are numbers with one den, and
\* the sum of num equals Nfreqs * Nbls * den
TraceSumMatchesIdentity ==
    \A vp \in VisPolInds :
        /\ \A b \in Bls : \A i \in FreqInds : DwEntry(b, i, i, vp).kind \in {"zero", "fin"}
        /\ \E den \in {DwEntry(b, 0, 0, vp).den : b \in Bls} :
              /\ \A b \in Bls : \A i \in FreqInds : DwEntry(b, i, i, vp).den = den
              /\ SumOver([b \in Bls |->
                            SumOver([i \in FreqInds |-> DwEntry(b, i, i, vp).num.re],
                                    FreqInds)], Bls)
                    = caldata_obj.Nfreqs * Nbls * den

\* C18: for a valid delay_spectrum_variance, the traces of the per-baseline
\* matrices sum to Nfreqs * Nbls.
C18_TraceSum == DwStored => TraceSumMatchesIdentity

\* the same, of the calls in which every baseline falls in a bin
C18_TraceSumWhenCovered ==
    (DwStored /\ \A b \in Bls : ~Uncovered(b)) => TraceSumMatchesIdentity

-----------------------------------------------------------------------------
(* The phase centering of the fitted gains (calibration_optimization.py,
   lines 435-443), on numbers *)

\* A gain is held by its amplitude and by a vector dir along it, so that
\* cos(np.angle(g)) and sin(np.angle(g)) are dir.re and dir.im over |dir|; all
\* the gains of one vector have dir of one length.
CxTimes(x, y) == Cx(x.re * y.re - x.im * y.im, x.re * y.im + x.im * y.re)

\* (sum of cos(angle), sum of sin(angle)): np.nanmean but for the common
\* positive factor 1 / (Nants * |dir|), which np.arctan2 does not see
MeanDirection(gains) ==
    Cx(SumOver([a \in Ants |-> gains[a].dir.re], Ants),
       SumOver([a \in Ants |-> gains[a].dir.im], Ants))

\* a vector along avg_angle = np.arctan2(mean sin, mean cos); arctan2(0, 0) is 0
AvgAngle(gains) ==
    LET m == MeanDirection(gains)
    IN  IF m = Cx(0, 0) THEN Cx(1, 0) ELSE m

CenterGains_TurnedForward(gains) ==
    [a \in Ants |-> [gains[a] EXCEPT !.dir = CxTimes(@, AvgAngle(gains))]]

\* gains_fit *= np.cos(avg_angle) - 1j * np.sin(avg_angle): every gain is
\* turned back by avg_angle
CenterGains(gains) ==
    [a \in Ants |-> [gains[a] EXCEPT !.dir = CxTimes(@, Conj(AvgAngle(gains)))]]

\* lines 435-443
PhaseCenter ==
    /\ pc = "center_entry"
    /\ fit_vector' = CenterGains(fit_vector)
    /\ pc' = "center_done"
    /\ UNCHANGED <<caldata_obj, parallel, verbose, get_crosspol_phase, nonconv,
                   pool, caldata_list, freq_ind, pending, result, finished, stdout,
                   optcalls, dispatched, entry, raised, prev, auxvars,
                   hess_blocks, hess_flattened, initial_abscal_params>>

\* phases of the fitted gains: multiples of a quarter turn
UnitDirections == {Cx(1, 0), Cx(0, 1), Cx(-1, 0), Cx(0, -1)}

\* the optimizer has returned some gains
InitCenter ==
    /\ fit_vector \in [Ants -> [amp : {1, 2}, dir : UnitDirections]]
    /\ hess_blocks = None
    /\ hess_flattened = None
    /\ initial_abscal_params = {}
    /\ caldata_obj = None
    /\ parallel = FALSE
    /\ verbose = FALSE
    /\ get_crosspol_phase = TRUE
    /\ nonconv = {}
    /\ pool = "none"
    /\ entry = "run_calibration_optimization_per_pol_single_freq"
    /\ pc = "center_entry"
    /\ CalIdle
    /\ ApplyIdle
    /\ DwIdle

NextCenter == PhaseCenter

SpecCenter == InitCenter /\ [][NextCenter]_vars

Norm2(z) == z.re * z.re + z.im * z.im

\* C19: after the phase centering the circular mean of the phases of the
\* fitted gains over the antennas, arctan2(mean sin, mean cos), is zero: the
\* mean of the sines is zero and the mean of the cosines is not negative.
C19_CircularMeanZero ==
    pc = "center_done" =>
        /\ \A a, b \in Ants : Norm2(fit_vector[a].dir) = Norm2(fit_vector[b].dir)
        /\ MeanDirection(fit_vector).im = 0
        /\ MeanDirection(fit_vector).re >= 0

C19_Witness ==
    /\ pc = "center_done"
    /\ MeanDirection(fit_vector).re > 0
    /\ \E a \in Ants : fit_vector[a].dir.im # 0

-----------------------------------------------------------------------------
(* Properties of the delay-weighted abscal driver *)

DwAbscalDone == DelayWeighted(entry) /\ pc = "dw_done"

\* the parameter the object held when the wrapper was entered
EntryValue(x) == IF x.k = "perturbed" THEN x.of ELSE x

\* the termination messages printed for visibility polarization vp
MessagesOf(vp) ==
    {i \in 1 .. Len(stdout) : stdout[i].k = "message" /\ stdout[i].vp = vp}

\* C20: run_dw_abscal_optimization does not split by frequency: it invokes
\* the optimizer once per feed polarization, on a parameter vector that holds
\* the three parameters of every channel, and stores the answer in the column
\* of abscal_params of that polarization only.
C20_OncePerPolarizationAllChannels ==
    DwAbscalDone =>
        /\ Cardinality(optcalls) = caldata_obj.N_feed_pols
        /\ \A p \in FeedPolInds :
              /\ <<0, SkyOf(p)>> \in optcalls
              /\ verbose => Cardinality(MessagesOf(SkyOf(p))) = 1
              /\ \A f \in FreqInds :
                    LET stored == caldata_obj.abscal_params[f][p]
                    IN  /\ stored.k = "xf"
                        /\ stored.f = f
                        /\ stored.x = caldata_obj.abscal_params[0][p].x
                        /\ DOMAIN stored.x.sub.x0 = FreqInds
                        /\ DOMAIN stored.x.sub.model = FreqInds
                        /\ EntryValue(stored.x.sub.x0[f]) \in
                               {AbscalInit(f, p, 0), AbscalInit(f, p, 1)}
                        /\ stored.x.sub.model[f] = caldata_obj.model_visibilities[f][SkyOf(p)]
                        /\ stored.x.sub.data[f] = caldata_obj.data_visibilities[f][SkyOf(p)]

C20_Witness ==
    /\ DwAbscalDone
    /\ verbose
    /\ caldata_obj.Nfreqs = MaxFreqs
    /\ caldata_obj.abscal_params[0][0] # caldata_obj.abscal_params[0][1]

-----------------------------------------------------------------------------
(* Properties of the worker pool of calibration_per_pol *)

\* calibration_per_pol has returned
WrapperDone == entry = "calibration_per_pol" /\ pc = "wrap_done"

\* C21: every worker pool that a calibration_per_pol call created is closed
\* and joined when the call returns, on every path: the parallel solve, a
\* single channel, and all data flagged.
C21_PoolJoinedAtReturn ==
    WrapperDone => pool \in {"unbound", "joined"}


\* C22: in a calibration_per_pol call on data with exactly one frequency
\* channel no worker pool is created at any point of the call, whatever the
\* value of parallel.
C22_NoPoolForSingleChannel ==
    (entry = "calibration_per_pol" /\ caldata_obj.Nfreqs = 1)
        => pool = "unbound"


-----------------------------------------------------------------------------
(* calibrate_caldata_per_pol under fair scheduling: the main line keeps
   running, every task handed to starmap is run by some worker, and the
   optimizer returns from every invocation, converged or not *)

\* the sub-problems whose minimize call stops at maxiter
NonConverging == { {}, {<<0, 0>>}, {<<0, 0>>, <<1, 1>>} }

InitGainFair ==
    /\ SomeInput
    /\ parallel \in BOOLEAN
    /\ verbose = FALSE
    /\ get_crosspol_phase = TRUE
    /\ nonconv \in NonConverging
    /\ pool = IF parallel THEN "open" ELSE "none"
    /\ entry = "calibrate_caldata_per_pol"
    /\ pc = "cal_entry"
    /\ Idle

\* the steps of the main line outside the frequency loop
MainLine ==
    \/ CalibrateAllFlagged
    \/ CalibrateParallelStart
    \/ CalibrateSequentialStart
    \/ CalibrateParallelGather

\* one pass of the sequential loop: under NextGain the steps that advance
\* freq_ind from "seq_loop" are the CalibrateSequentialStep steps, and that
\* action has no guard beyond pc = "seq_loop"
SequentialPass == pc = "seq_loop" /\ freq_ind' = freq_ind + 1

\* worker task i comes back: under NextGain the steps that take i out of
\* pending are the WorkerFinish(i) steps, whose guard is the one written here
WorkerReturns(i) == pc = "par_wait" /\ i \in pending /\ pending' = pending \ {i}

SpecGainFair ==
    /\ InitGainFair
    /\ [][NextGain]_vars
    /\ WF_vars(MainLine)
    /\ WF_freq_ind(SequentialPass)
    /\ \A i \in 0 .. (MaxFreqs - 1) : WF_pending(WorkerReturns(i))

\* a value the optimizer returned, turned or not by the crosspolarization phase
SolvedValue(g) ==
    \/ g.k = "fit"
    \/ g.k = "rot" /\ g.g.k = "fit"

\* every task handed to the pool has come back
NothingPending ==
    /\ pending = {}
    /\ dispatched => \A f \in FreqInds : \E n \in 1 .. Len(finished) : finished[n] = f

\* gains[:, f, :] holds what the solve of channel f produced
ChannelWritten(f) ==
    \A p \in FeedPolInds :
        caldata_obj.gains[f][p] = NaN \/ SolvedValue(caldata_obj.gains[f][p])

\* calibrate_caldata_per_pol returns in every fair run
EventuallyReturns == <>CalDone

\* on return nothing is pending and no task was dropped
ReturnsWithNothingPending == CalDone => NothingPending

\* C23: with an optimizer that returns from every invocation and workers that
\* are scheduled fairly, calibrate_caldata_per_pol eventually returns, and when
\* it returns no task is pending or dropped and every frequency channel of
\* gains holds a solved value or NaN.
C23_ReturnsWithEveryChannelWritten ==
    /\ <>CalDone
    /\ [](CalDone => (NothingPending /\ \A f \in FreqInds : ChannelWritten(f)))


-----------------------------------------------------------------------------
(* CalData.expand_in_polarization called on a loaded data set *)

\* polarization_array of the data set: the arrays of VisPolArrays and
\* selections that hold a cross polarization without both of XX and YY
ExpandVisPolArrays ==
    VisPolArrays \cup { <<PolX, PolXY>>, <<PolXY, PolYX>> }

\* caldata_list = self.expand_in_polarization()
ExpandPolarization ==
    /\ pc = "exp_entry"
    /\ IF ExpandError(caldata_obj) # "none"
       THEN /\ Raise(ExpandError(caldata_obj))
            /\ UNCHANGED caldata_list
       ELSE /\ caldata_list' = ExpandInPolarization(caldata_obj)
            /\ pc' = "exp_done"
            /\ UNCHANGED raised
    /\ UNCHANGED <<caldata_obj, parallel, verbose, get_crosspol_phase, nonconv,
                   pool, freq_ind, pending, result, finished, stdout, optcalls,
                   dispatched, entry, prev, auxvars, purevars>>

\* caldata_obj as load_data leaves it with N_feed_pols=None and
\* feed_polarization_array=None
InitExpand ==
    /\ \E nf \in 1 .. MaxFreqs : \E vis_pols \in ExpandVisPolArrays :
          \E w \in [0 .. (nf - 1) -> ChannelWeights(vis_pols)] :
             caldata_obj =
                 LoadData(nf,
                          DefaultFeedPolarizationArray(vis_pols, Min2(2, Len(vis_pols))),
                          vis_pols, w, NoVersions(nf))
    /\ parallel = FALSE
    /\ verbose = FALSE
    /\ get_crosspol_phase = TRUE
    /\ nonconv = {}
    /\ pool = "none"
    /\ entry = "expand_in_polarization"
    /\ pc = "exp_entry"
    /\ Idle

NextExpand == ExpandPolarization

SpecExpand == InitExpand /\ [][NextExpand]_vars

\* expand_in_polarization has returned or raised
ExpandEnded == entry = "expand_in_polarization" /\ pc \in {"exp_done", "error"}

\* element p of the list is the sub-model of feed polarization p: one feed and
\* one visibility polarization with the same code, and the slices of the
\* parent at the visibility polarization vp that carries that code
SubModelOf(sub, cd, p) ==
    /\ sub.N_feed_pols = 1
    /\ sub.N_vis_pols = 1
    /\ sub.feed_polarization_array = Arr(<<cd.feed_polarization_array[p]>>)
    /\ sub.vis_polarization_array = sub.feed_polarization_array
    /\ \E vp \in Idx(cd.vis_polarization_array) :
          /\ cd.vis_polarization_array[vp] = cd.feed_polarization_array[p]
          /\ \A f \in Idx(cd.gains) :
                /\ sub.model_visibilities[f] = Arr(<<cd.model_visibilities[f][vp]>>)
                /\ sub.data_visibilities[f] = Arr(<<cd.data_visibilities[f][vp]>>)
                /\ sub.visibility_weights[f] = Arr(<<cd.visibility_weights[f][vp]>>)

\* C24: on every data set expand_in_polarization returns one sub-model per
\* entry of feed_polarization_array, in the same order, each with N_feed_pols =
\* 1 and N_vis_pols = 1, whose visibility polarization code is its feed
\* polarization code and whose model, data and weights are the parent's slice
\* at that visibility polarization.
C24_OneSubModelPerFeedPolarization ==
    ExpandEnded =>
        /\ raised = "none"
        /\ DOMAIN caldata_list = Idx(caldata_obj.feed_polarization_array)
        /\ \A p \in DOMAIN caldata_list :
              SubModelOf(caldata_list[p], caldata_obj, p)

\* the same whenever the call returns
C24_WhenReturned ==
    (ExpandEnded /\ raised = "none") =>
        /\ DOMAIN caldata_list = Idx(caldata_obj.feed_polarization_array)
        /\ \A p \in DOMAIN caldata_list :
              SubModelOf(caldata_list[p], caldata_obj, p)


-----------------------------------------------------------------------------
(* What the optimization drivers leave alone *)

\* everything of a CalData object but gains and abscal_params: the
\* visibilities, the weights, the metadata, the polarization arrays, the counts
FrameOf(cd) == [cd EXCEPT !.gains = None, !.abscal_params = None]

\* C25: calibrate_caldata_per_pol, run_calibration_optimization_per_pol_single_freq,
\* run_abscal_optimization_single_freq and run_dw_abscal_optimization change
\* only gains or abscal_params of the object they are given (caldata_obj, or
\* the single-channel object of caldata_list): visibilities, weights,
\* metadata, polarization arrays and counts stay as they were.
C25_DriversChangeOnlyParameters ==
    [][ /\ FrameOf(caldata_obj') = FrameOf(caldata_obj)
        /\ \A i \in DOMAIN caldata_list :
              i \in DOMAIN caldata_list' =>
                  FrameOf(caldata_list'[i]) = FrameOf(caldata_list[i]) ]_vars

C25_Witness ==
    /\ entry = "absolute_calibration"
    /\ pc = "abs_done"
    /\ caldata_obj.Nfreqs = 2
    /\ \A f \in FreqInds : \A p \in FeedPolInds :
          /\ caldata_obj.abscal_params[f][p].k = "x"
          /\ caldata_list[f].abscal_params[0][p] = caldata_obj.abscal_params[f][p]
    /\ FrameOf(caldata_obj) = FrameOf(InputOf(caldata_obj))


-----------------------------------------------------------------------------
(* Where hessian_single_pol_wrapper puts the blocks *)

\* C26: over the parameter vector [real components, imaginary components] the
\* block the cost engine returns as real-imaginary occupies rows 0..Nants-1
\* and columns Nants..2*Nants-1 of the assembled matrix, and the block at rows
\* Nants..2*Nants-1 and columns 0..Nants-1 is the transpose of its conjugate.
C26_RealImagBlockInRealRows ==
    pc = "hess_done" =>
        \A i, j \in Ants :
            /\ hess_flattened[i][Nants + j] =
                   StoreFloat(hess_blocks.hess_real_imag[i][j])
            /\ hess_flattened[Nants + i][j] =
                   StoreFloat(Conj(hess_blocks.hess_real_imag[j][i]))

\* what the code does: the block is stored at the rows of the imaginary
\* components, its conjugate transpose at the rows of the real components
RealImagBlockInImagRows ==
    pc = "hess_done" =>
        \A i, j \in Ants :
            /\ hess_flattened[Nants + i][j] =
                   StoreFloat(hess_blocks.hess_real_imag[i][j])
            /\ hess_flattened[i][Nants + j] =
                   StoreFloat(Conj(hess_blocks.hess_real_imag[j][i]))


-----------------------------------------------------------------------------
(* Properties of dw_absolute_calibration *)

\* dw_absolute_calibration has returned or raised
DwWrapperEnded == entry = "dw_absolute_calibration" /\ pc \in {"dw_done", "error"}

\* C27: in dw_absolute_calibration with one or with two feed polarizations
\* every call of the dw-abscal cost and Jacobian wrappers (initial cost,
\* optimizer callbacks, final cost, final Jacobian) is handed a vector of
\* 3 * Nfreqs entries, its reshape to (3, Nfreqs) succeeds and the call
\* completes.
C27_WrappersGetThreeNfreqsEntries ==
    (entry = "dw_absolute_calibration" /\ caldata_obj.N_feed_pols \in {1, 2}) =>
        /\ raised # "ValueError"
        /\ pc \in {"dw_opt", "dw_done"} =>
              FlattenedSize(caldata_obj) = 3 * caldata_obj.Nfreqs
        /\ DwWrapperEnded =>
              /\ pc = "dw_done"
              /\ \E i \in 1 .. Len(stdout) : stdout[i].k = "Final Jacobian"

\* the same with one feed polarization
WrappersGetThreeNfreqsEntriesOnePol ==
    (entry = "dw_absolute_calibration" /\ caldata_obj.N_feed_pols = 1) =>
        /\ raised # "ValueError"
        /\ DwWrapperEnded =>
              /\ pc = "dw_done"
              /\ \E i \in 1 .. Len(stdout) : stdout[i].k = "Final Jacobian"

\* C29: dw_absolute_calibration does not modify the caller's
\* initial_abscal_params: through the random perturbation and the
\* optimization the array holds the values it held before the call.
C29_InitialAbscalParamsKept ==
    [][initial_abscal_params' = initial_abscal_params]_vars

\* when the call aborts at the initial cost the array is as it was
InitialAbscalParamsKeptOnAbort ==
    (entry = "dw_absolute_calibration" /\ pc = "error") =>
        initial_abscal_params \subseteq
            {GivenAbscalParams(caldata_obj.Nfreqs, FeedXY)}


-----------------------------------------------------------------------------
(* hessian_dw_abscal_wrapper (calibration_optimization.py): the assembly of
   the matrix handed to the optimizer from the six blocks of the cost engine *)

\* the frequency channels of the object handed to the wrapper
HessFreqs == {0, 1}

HessNfreqs == Cardinality(HessFreqs)

\* lines 347-355: hess[a, f, b, g], reshaped to (3 * Nfreqs, 3 * Nfreqs), is
\* entry [a * Nfreqs + f][b * Nfreqs + g]; every cross block is stored as it
\* is at both of its places
DwHessianAssemble(blocks) ==
    [r \in 0 .. (3 * HessNfreqs - 1) |->
        [c \in 0 .. (3 * HessNfreqs - 1) |->
            LET a == r \div HessNfreqs
                f == r % HessNfreqs
                b == c \div HessNfreqs
                g == c % HessNfreqs
            IN  CASE a = 0 /\ b = 0 -> blocks.hess_amp_amp[f][g]
                  [] {a, b} = {0, 1} -> blocks.hess_amp_phasex[f][g]
                  [] {a, b} = {0, 2} -> blocks.hess_amp_phasey[f][g]
                  [] a = 1 /\ b = 1 -> blocks.hess_phasex_phasex[f][g]
                  [] a = 2 /\ b = 2 -> blocks.hess_phasey_phasey[f][g]
                  [] OTHER -> blocks.hess_phasex_phasey[f][g]]]

\* lines 331-356
DwHessianWrapper ==
    /\ pc = "dwhess_entry"
    /\ hess_flattened' = DwHessianAssemble(hess_blocks)
    /\ pc' = "dwhess_done"
    /\ UNCHANGED <<caldata_obj, parallel, verbose, get_crosspol_phase, nonconv,
                   pool, caldata_list, freq_ind, pending, result, finished, stdout,
                   optcalls, dispatched, entry, raised, prev, auxvars,
                   hess_blocks, fit_vector, initial_abscal_params>>

\* blocks symmetric in the two frequency indices
SymmetricFreqBlocks ==
    { [f \in HessFreqs |-> [g \in HessFreqs |-> IF f = g THEN d ELSE o]] :
        d \in {1, 2}, o \in {0, 1} }

\* blocks of any kind
FreqBlocks == [HessFreqs -> [HessFreqs -> {0, 1}]]

\* blocks zero but for one entry off the diagonal
SparseFreqBlocks ==
    { [f \in HessFreqs |-> [g \in HessFreqs |-> IF f < g THEN o ELSE 0]] : o \in {0, 1} }

\* the cost engine has returned the six blocks, amp-amp, phasex-phasex and
\* phasey-phasey symmetric
InitDwHess ==
    /\ \E aa \in SymmetricFreqBlocks : \E xx \in SymmetricFreqBlocks :
       \E yy \in SymmetricFreqBlocks : \E ax \in FreqBlocks :
       \E ay \in SparseFreqBlocks : \E xy \in SparseFreqBlocks :
          hess_blocks = [ hess_amp_amp |-> aa,
                          hess_amp_phasex |-> ax,
                          hess_amp_phasey |-> ay,
                          hess_phasex_phasex |-> xx,
                          hess_phasey_phasey |-> yy,
                          hess_phasex_phasey |-> xy ]
    /\ hess_flattened = None
    /\ fit_vector = None
    /\ initial_abscal_params = {}
    /\ caldata_obj = None
    /\ parallel = FALSE
    /\ verbose = FALSE
    /\ get_crosspol_phase = TRUE
    /\ nonconv = {}
    /\ pool = "none"
    /\ entry = "hessian_dw_abscal_wrapper"
    /\ pc = "dwhess_entry"
    /\ CalIdle
    /\ ApplyIdle
    /\ DwIdle

NextDwHess == DwHessianWrapper

SpecDwHess == InitDwHess /\ [][NextDwHess]_vars

SymmetricBlock(m) == \A f, g \in HessFreqs : m[f][g] = m[g][f]

\* C28: the matrix that hessian_dw_abscal_wrapper assembles equals its
\* transpose, whatever blocks the cost engine returned with amp-amp,
\* phasex-phasex and phasey-phasey symmetric in the two frequency indices and
\* nothing assumed of amp-phasex, amp-phasey and phasex-phasey.
C28_DwHessianSymmetric ==
    pc = "dwhess_done" =>
        \A r, c \in 0 .. (3 * HessNfreqs - 1) :
            hess_flattened[r][c] = hess_flattened[c][r]

\* the matrix is symmetric when the three cross blocks are symmetric too
DwHessianSymmetricForSymmetricBlocks ==
    ( /\ pc = "dwhess_done"
      /\ SymmetricBlock(hess_blocks.hess_amp_phasex)
      /\ SymmetricBlock(hess_blocks.hess_amp_phasey)
      /\ SymmetricBlock(hess_blocks.hess_phasex_phasey) ) =>
        \A r, c \in 0 .. (3 * HessNfreqs - 1) :
            hess_flattened[r][c] = hess_flattened[c][r]


-----------------------------------------------------------------------------
(* apply_abscal ending on a polarization code it does not know *)

\* apply_abscal has printed the error and called sys.exit(1)
ApplyExited == entry = "apply_abscal" /\ pc = "exited"

\* C30: when apply_abscal with inplace=True aborts on an unrecognized
\* visibility polarization code the data of the input cube are unchanged: no
\* polarization that precedes the unrecognized one has been corrected.
C30_InplaceAbortLeavesInput ==
    (ApplyExited /\ apply_args.inplace) =>
        uvdata.data_array = InputCube.data_array

\* with inplace=False the input cube is as it was when the call aborts
AbortLeavesInputWhenCopied ==
    (ApplyExited /\ ~apply_args.inplace) =>
        uvdata.data_array = InputCube.data_array

\* with inplace=True the polarizations that precede the unrecognized one hold
\* the corrected data and the others the data of the input
InplaceAbortLeavesPrefixCorrected ==
    (ApplyExited /\ apply_args.inplace) =>
        \A b \in Bls : \A f \in Idx(uvdata.data_array[b]) :
            \A vp \in Idx(uvdata.polarization_array) :
                uvdata.data_array[b][f][vp] =
                    IF vp < vis_pol_ind
                    THEN CorrectedEntry(b, f, vp)
                    ELSE InputCube.data_array[b][f][vp]

====
